---- MODULE Spec2Model ----
(***************************************************************************)
(* Model of the medical-policy assistant backend (src/backend).            *)
(*                                                                         *)
(* Strings are sequences of one-character strings, so that the regular     *)
(* expressions of main.py are matched character by character.  Amounts    *)
(* read from a bill text are counted in hundredths (float("70.5") is       *)
(* 7050).                                                                  *)
(***************************************************************************)
EXTENDS Integers, Sequences, FiniteSets, TLC

VARIABLES
    pc,        \* position of the modelled call: "start", "done"
    text,      \* the bill text handed to the fact helpers (characters)
    keywords,  \* the keyword list handed to sum_non_payables
    total,     \* what parse_total_amount returned
    nonpay,    \* what sum_non_payables returned (or that it raised)
    policy,    \* POLICY: the plan's rules put into the system prompt
    facts,     \* the facts the prompt's rules take from BILL TEXT
    now,       \* CURRENT_DATETIME, in ticks since day 0, 00:00
    adj,       \* the result of the prompt's COMPUTATION LOGIC
    timeline,  \* the result of the prompt's claim-timeline rules
    user_input, \* the user's text of one chat turn (a sequence of words)
    intent,    \* the path of the prompt's INTENT ROUTING taken for it
    history,   \* the history list of each caller of chat_with_history
    calls,     \* the calls of chat_with_history that have returned
    policy_files,  \* what open(path) finds: <<>> (no such file) or <<mapping>>
    _POLICY_CACHE, \* main.py 53: <<>> (None) or <<mapping>>
    loads,     \* the mappings that load_policy_data has returned, in order
    db,        \* the committed rows: conversations, messages, id sequences
    response,  \* the response to the request handled in the latest step
    requests   \* the requests in progress at the same time, each with its
               \* position in its handler and its local values

\* The state of the chat service, which the bill helpers never touch.
turns == <<user_input, intent, history, calls>>

server == <<policy_files, _POLICY_CACHE, loads, db, response, requests>>

service == <<turns, server>>

vars == <<pc, text, keywords, total, nonpay, policy, facts, now, adj, timeline,
          user_input, intent, history, calls,
          policy_files, _POLICY_CACHE, loads, db, response, requests>>

\* Python's None ("not available"): no amount is negative, so -1 is free.
None == -1

(***************************************************************************)
(* Characters                                                              *)
(***************************************************************************)
Digits == <<"0", "1", "2", "3", "4", "5", "6", "7", "8", "9">>

UpperCase == <<"A", "B", "C", "D", "E", "F", "G", "H", "I", "J", "K", "L", "M",
               "N", "O", "P", "Q", "R", "S", "T", "U", "V", "W", "X", "Y", "Z">>

LowerCase == <<"a", "b", "c", "d", "e", "f", "g", "h", "i", "j", "k", "l", "m",
               "n", "o", "p", "q", "r", "s", "t", "u", "v", "w", "x", "y", "z">>

Range(f) == {f[i] : i \in DOMAIN f}

DigitChars == Range(Digits)

IsDigit(c) == c \in DigitChars

\* \w of Python's re: letters, digits and the underscore.
WordChars == Range(Digits) \cup Range(UpperCase) \cup Range(LowerCase) \cup {"_"}

IsWord(c) == c \in WordChars

\* \s of Python's re (the characters that can occur inside one line).
IsSpace(c) == c \in {" ", "\t"}

\* re.I: characters are compared after case folding.
LowerOf == [c \in Range(UpperCase) |->
               LowerCase[CHOOSE i \in DOMAIN UpperCase : UpperCase[i] = c]]

Lower(c) == IF c \in DOMAIN LowerOf THEN LowerOf[c] ELSE c

DigitValOf == [c \in DigitChars |-> (CHOOSE i \in DOMAIN Digits : Digits[i] = c) - 1]

DigitVal(c) == DigitValOf[c]

NL == "\n"

(***************************************************************************)
(* str.splitlines(): a line ends at each newline; a trailing newline opens *)
(* no further line, and the empty text has no lines.  The texts here use   *)
(* "\n" as their only line separator.                                      *)
(***************************************************************************)
RECURSIVE SplitFrom(_, _, _, _)
SplitFrom(s, i, cur, acc) ==
    IF i > Len(s)
    THEN IF cur = <<>> THEN acc ELSE Append(acc, cur)
    ELSE IF s[i] = NL
         THEN SplitFrom(s, i + 1, <<>>, Append(acc, cur))
         ELSE SplitFrom(s, i + 1, Append(cur, s[i]), acc)

splitlines(s) == SplitFrom(s, 1, <<>>, <<>>)

(***************************************************************************)
(* Pieces of regular expressions                                           *)
(***************************************************************************)
\* \b between s[k] and s[k+1] (k = 0 is the start, k = Len(s) the end).
WordBoundary(s, k) ==
    LET before == k >= 1 /\ IsWord(s[k])
        after  == k < Len(s) /\ IsWord(s[k + 1])
    IN  before # after

\* The literal lit (given in lower case) matches s at position i under re.I.
LiteralAt(s, i, lit) ==
    /\ i >= 1
    /\ i + Len(lit) - 1 <= Len(s)
    /\ \A k \in 1..Len(lit) : Lower(s[i + k - 1]) = Lower(lit[k])

\* re.search(r'w1\s*w2', ln, re.I): no word boundary on either side.
SearchTwoWords(ln, w1, w2) ==
    \E i \in 1..Len(ln) :
        /\ LiteralAt(ln, i, w1)
        /\ \E j \in (i + Len(w1))..(Len(ln) + 1) :
              /\ \A k \in (i + Len(w1))..(j - 1) : IsSpace(ln[k])
              /\ LiteralAt(ln, j, w2)

\* re.search(r'\bw\b', ln, re.I)
SearchWholeWord(ln, w) ==
    \E i \in 1..Len(ln) :
        /\ WordBoundary(ln, i - 1)
        /\ LiteralAt(ln, i, w)
        /\ WordBoundary(ln, i + Len(w) - 1)

\* End of the maximal run of digits that starts at p.
RECURSIVE DigitRunEnd(_, _)
DigitRunEnd(s, p) ==
    IF p + 1 <= Len(s) /\ IsDigit(s[p + 1]) THEN DigitRunEnd(s, p + 1) ELSE p

\* r'\b\d+(?:\.\d{1,2})?\b' tried at position p: the index of the last
\* character of the match, or 0 when there is no match at p.  The fraction is
\* greedy: two digits, then one, then none.
NumberEndAt(s, p) ==
    IF ~(p <= Len(s) /\ IsDigit(s[p]) /\ WordBoundary(s, p - 1))
    THEN 0
    ELSE LET d     == DigitRunEnd(s, p)
             dot   == d + 2 <= Len(s) /\ s[d + 1] = "." /\ IsDigit(s[d + 2])
             frac2 == dot /\ d + 3 <= Len(s) /\ IsDigit(s[d + 3])
                          /\ WordBoundary(s, d + 3)
             frac1 == dot /\ WordBoundary(s, d + 2)
         IN  IF frac2 THEN d + 3
             ELSE IF frac1 THEN d + 2
             ELSE IF WordBoundary(s, d) THEN d
             ELSE 0

\* re.findall(r'\b\d+(?:\.\d{1,2})?\b', ln): the non-overlapping matches, left
\* to right.
RECURSIVE FindAllFrom(_, _, _)
FindAllFrom(s, p, acc) ==
    IF p > Len(s) THEN acc
    ELSE LET e == NumberEndAt(s, p)
         IN  IF e = 0 THEN FindAllFrom(s, p + 1, acc)
             ELSE FindAllFrom(s, e + 1, Append(acc, SubSeq(s, p, e)))

findall_numbers(ln) == FindAllFrom(ln, 1, <<>>)

\* int() of a run of digits.
RECURSIVE IntOf(_)
IntOf(ds) ==
    IF ds = <<>> THEN 0
    ELSE 10 * IntOf(SubSeq(ds, 1, Len(ds) - 1)) + DigitVal(ds[Len(ds)])

\* float() of a numeric token, in hundredths.
float(tok) ==
    IF \E i \in 1..Len(tok) : tok[i] = "."
    THEN LET i    == CHOOSE k \in 1..Len(tok) : tok[k] = "."
             frac == SubSeq(tok, i + 1, Len(tok))
         IN  100 * IntOf(SubSeq(tok, 1, i - 1))
               + (IF Len(frac) = 1 THEN 10 * IntOf(frac) ELSE IntOf(frac))
    ELSE 100 * IntOf(tok)


(***************************************************************************)
(* parse_total_amount (main.py 351-363)                                    *)
(***************************************************************************)
\* The four regular expressions, in the order of the list `patterns`.
patterns_total_first == <<"total", "grand_total", "amount_payable", "net_payable">>

patterns == <<"net_payable", "amount_payable", "grand_total", "total">>

\* re.search(p, ln, re.I) for the pattern named p.
search(p, ln) ==
    CASE p = "net_payable"    -> SearchTwoWords(ln, <<"n", "e", "t">>,
                                     <<"p", "a", "y", "a", "b", "l", "e">>)
      [] p = "amount_payable" -> SearchTwoWords(ln, <<"a", "m", "o", "u", "n", "t">>,
                                     <<"p", "a", "y", "a", "b", "l", "e">>)
      [] p = "grand_total"    -> SearchTwoWords(ln, <<"g", "r", "a", "n", "d">>,
                                     <<"t", "o", "t", "a", "l">>)
      [] p = "total"          -> SearchWholeWord(ln, <<"t", "o", "t", "a", "l">>)

\* float(vals[-1]) when vals is not empty, else None (the line is passed over).
last_amount(ln) ==
    LET vals == findall_numbers(ln)
    IN  IF vals = <<>> THEN None ELSE float(vals[Len(vals)])

\* first_amount takes vals[0].
first_amount(ln) ==
    LET vals == findall_numbers(ln)
    IN  IF vals = <<>> THEN None ELSE float(vals[1])

\* The inner loop `for ln in reversed(lines)` for one pattern, from line j down.
RECURSIVE ScanDown(_, _, _)
ScanDown(lines, j, p) ==
    IF j = 0 THEN None
    ELSE IF search(p, lines[j]) /\ last_amount(lines[j]) # None
         THEN last_amount(lines[j])
         ELSE ScanDown(lines, j - 1, p)

\* The same loop without reversed(): from line j up.
RECURSIVE ScanUp(_, _, _)
ScanUp(lines, j, p) ==
    IF j > Len(lines) THEN None
    ELSE IF search(p, lines[j]) /\ last_amount(lines[j]) # None
         THEN last_amount(lines[j])
         ELSE ScanUp(lines, j + 1, p)

scan_forward(lines, p) == ScanUp(lines, 1, p)

scan_reversed(lines, p) == ScanDown(lines, Len(lines), p)

\* The outer loop `for p in patterns`, from pattern k on; None after the last.
RECURSIVE ScanPatterns(_, _)
ScanPatterns(lines, k) ==
    IF k > Len(patterns) THEN None
    ELSE LET r == scan_reversed(lines, patterns[k])
         IN  IF r # None THEN r ELSE ScanPatterns(lines, k + 1)

parse_total_amount(t) == ScanPatterns(splitlines(t), 1)

(***************************************************************************)
(* sum_non_payables (main.py 366-374)                                      *)
(*                                                                         *)
(* The keyword is put into the expression rf'\b{kw}\b' as it is, so it is  *)
(* read as a regular expression.  Keywords here are made of word           *)
(* characters, of "." (any character) and of parentheses (a plain group,   *)
(* which matches what it encloses).                                        *)
(***************************************************************************)
\* Nesting depth of the parentheses after the first i characters of kw, or -1
\* once a ")" closes nothing.
RECURSIVE Depth(_, _)
Depth(kw, i) ==
    IF i = 0 THEN 0
    ELSE LET d == Depth(kw, i - 1)
         IN  IF d < 0 THEN -1
             ELSE IF kw[i] = "(" THEN d + 1
             ELSE IF kw[i] = ")" THEN d - 1
             ELSE d

\* re.compile accepts the expression: every group is closed and every ")"
\* closes one ("missing ), unterminated subpattern" / "unbalanced parenthesis"
\* otherwise).
compiles(kw) == Depth(kw, Len(kw)) = 0

\* The keyword without its group parentheses: what has to match, character by
\* character.
RECURSIVE Atoms(_)
Atoms(kw) ==
    IF kw = <<>> THEN <<>>
    ELSE IF kw[1] \in {"(", ")"} THEN Atoms(Tail(kw))
    ELSE <<kw[1]>> \o Atoms(Tail(kw))

\* re.search(rf'\b{kw}\b', ln, re.I) for a keyword that compiles.
search_keyword(kw, ln) ==
    LET as == Atoms(kw)
    IN  \E i \in 1..(Len(ln) + 1) :
            /\ i + Len(as) - 1 <= Len(ln)
            /\ WordBoundary(ln, i - 1)
            /\ \A k \in 1..Len(as) :
                  as[k] = "." \/ Lower(ln[i + k - 1]) = Lower(as[k])
            /\ WordBoundary(ln, i + Len(as) - 1)

\* The inner loop `for ln in text.splitlines()` for one keyword, from line j on.
RECURSIVE HitsOfKeyword(_, _, _)
HitsOfKeyword(kw, lines, j) ==
    IF j > Len(lines) THEN <<>>
    ELSE (IF search_keyword(kw, lines[j]) /\ last_amount(lines[j]) # None
          THEN <<<<kw, last_amount(lines[j])>>>>
          ELSE <<>>) \o HitsOfKeyword(kw, lines, j + 1)

\* The outer loop `for kw in keywords`, from keyword i on.
RECURSIVE Hits(_, _, _)
Hits(kws, lines, i) ==
    IF i > Len(kws) THEN <<>>
    ELSE HitsOfKeyword(kws[i], lines, 1) \o Hits(kws, lines, i + 1)

\* sum(v for _, v in hits)
RECURSIVE SumAmounts(_)
SumAmounts(hits) ==
    IF hits = <<>> THEN 0 ELSE hits[1][2] + SumAmounts(Tail(hits))

\* The call raises re.error at the first re.search with a keyword that does
\* not compile, which happens when there is a line to search; otherwise it
\* returns (total, hits).
sum_non_payables(t, kws) ==
    LET lines == splitlines(t)
        hits  == Hits(kws, lines, 1)
    IN  IF lines # <<>> /\ \E i \in 1..Len(kws) : ~compiles(kws[i])
        THEN [raised |-> TRUE, total |-> 0, items |-> <<>>]
        ELSE [raised |-> FALSE, total |-> SumAmounts(hits), items |-> hits]

(***************************************************************************)
(* Exact arithmetic: an amount is a fraction <<numerator, denominator>> in *)
(* lowest terms (the rules divide by the billed rate and by 100; rounding  *)
(* happens only when an amount is printed).                                *)
(***************************************************************************)
RECURSIVE GCD(_, _)
GCD(a, b) == IF b = 0 THEN a ELSE GCD(b, a % b)

Rat(n, d) == LET g == GCD(IF n < 0 THEN -n ELSE n, d) IN <<n \div g, d \div g>>

RInt(n) == <<n, 1>>

RMul(a, b) == Rat(a[1] * b[1], a[2] * b[2])

RAdd(a, b) == Rat(a[1] * b[2] + b[1] * a[2], a[2] * b[2])

RLeq(a, b) == a[1] * b[2] <= b[1] * a[2]

RMin(a, b) == IF RLeq(a, b) THEN a ELSE b

(***************************************************************************)
(* The adjudication rules of the system prompt (main.py 236-301; the       *)
(* estimate range is prompts.py 62-68).  Amounts of the policy and of the  *)
(* bill are whole currency units.                                          *)
(***************************************************************************)
NotAvailable == "not_available"

\* Types (lowest -> highest): shared < single_private < any_room.
rank(type) ==
    CASE type = "shared"         -> 0
      [] type = "single_private" -> 1
      [] type = "any_room"       -> 2

\* (a) billed_rate_per_day > cap_per_day
over_cap(p, f) ==
    f.rate_per_day # None /\ p.cap_per_day # None /\ f.rate_per_day > p.cap_per_day

\* (b) billed_room_type outranks eligible_room_type
outranks(p, f) ==
    f.billed_type # NotAvailable /\ rank(f.billed_type) > rank(p.room_type)

\* A status that looks at the room types only.
room_status_by_type(p, f) ==
    IF outranks(p, f) THEN "over_limit"
    ELSE IF f.billed_type # NotAvailable THEN "within_cap"
    ELSE NotAvailable

\* Status: over limit if EITHER (a) OR (b); within cap when both comparisons
\* can be made and neither holds; otherwise Not available.
room_status(p, f) ==
    IF over_cap(p, f) \/ outranks(p, f) THEN "over_limit"
    ELSE IF f.rate_per_day # None /\ p.cap_per_day # None /\ f.billed_type # NotAvailable
         THEN "within_cap"
    ELSE NotAvailable

Max0(x) == IF x > 0 THEN x ELSE 0

MinInt(x, y) == IF x <= y THEN x ELSE y

\* "Extra you pay for room" = max(0, billed_rate_per_day - cap_per_day) x days
\* (only if the numbers exist; otherwise Not available).
extra_room_cost(p, f) ==
    IF f.rate_per_day # None /\ p.cap_per_day # None /\ f.days # None
    THEN Max0(f.rate_per_day - p.cap_per_day) * f.days
    ELSE None

\* Room rent payable = min(billed_rate_per_day, cap_per_day) x days (when the
\* numbers exist).
room_rent_payable(p, f) ==
    IF f.rate_per_day # None /\ p.cap_per_day # None /\ f.days # None
    THEN MinInt(f.rate_per_day, p.cap_per_day) * f.days
    ELSE None

\* Proportionate deduction applies only if POLICY.room.proportionate_deduction
\* is true AND Status is "over limit".
deduction_applies(p, status) == p.proportionate_deduction /\ status = "over_limit"

\* The ratio can be computed from available numbers ("If unavailable, do not
\* apply ratio").
ratio_available(p, f) == f.rate_per_day # None /\ p.cap_per_day # None

\* cap_per_day / billed_rate_per_day has no value when the billed rate is 0.
ratio_undefined(p, f, status) ==
    deduction_applies(p, status) /\ ratio_available(p, f) /\ f.rate_per_day = 0

\* r = min(1, cap_per_day / billed_rate_per_day); 1 when it does not apply.
ratio(p, f, status) ==
    IF deduction_applies(p, status) /\ ratio_available(p, f)
    THEN RMin(RInt(1), Rat(p.cap_per_day, f.rate_per_day))
    ELSE RInt(1)

\* 3) InsurerPays_pre_copay = room_rent_payable + fixed_items_payable
\*    + other_room_linked_payable (r x other charges; fixed items in full; a
\*    room rent that is not available adds nothing).
pre_copay(p, f, status) ==
    LET rent == room_rent_payable(p, f)
    IN  RAdd(RInt((IF rent = None THEN 0 ELSE rent) + f.fixed_items),
             RMul(ratio(p, f, status), RInt(f.other_charges)))

\* The insurer is paid the co-pay share itself.
co_pay_share(p, amount) ==
    IF p.co_pay_pct # None
    THEN RMul(amount, Rat(p.co_pay_pct, 100))
    ELSE amount

\* 4) Apply any co-pay from POLICY (if present):
\*    insurer pays = InsurerPays_pre_copay x (1 - co_pay_pct/100).
apply_co_pay(p, amount) ==
    IF p.co_pay_pct # None
    THEN RMul(amount, Rat(100 - p.co_pay_pct, 100))
    ELSE amount

\* The cap is left out.
no_cap(p, amount) == amount

\* 5) Apply sum insured cap if present: insurer pays = min(insurer pays,
\*    sum_insured).
apply_sum_insured(p, amount) ==
    IF p.sum_insured # None THEN RMin(amount, RInt(p.sum_insured)) ELSE amount

\* The estimates are left as computed.
uncapped_estimate(p, amount) == amount

\* "Cap estimates at sum_insured if present" (prompts.py 66).
cap_estimate(p, amount) ==
    IF p.sum_insured # None THEN RMin(amount, RInt(p.sum_insured)) ELSE amount

\* LowerBound = BestEstimate x 0.90, UpperBound = BestEstimate x 1.05, each
\* capped at the sum insured.
lower_bound(p, best) == cap_estimate(p, RMul(best, Rat(90, 100)))

upper_bound(p, best) == cap_estimate(p, RMul(best, Rat(105, 100)))

RNeg(a) == <<-a[1], a[2]>>

\* 6) PatientPays = TotalBill - insurer pays.
\* 7) PatientPays must also include the "Extra you pay for room" and all
\*    Non-payables.
\* <<>> when the total bill is not available, else <<amount>>.
patient_pays(p, f, best) ==
    IF f.total_bill = None THEN <<>>
    ELSE LET extra == extra_room_cost(p, f)
         IN  <<RAdd(RAdd(RInt(f.total_bill), RNeg(best)),
                    RInt((IF extra = None THEN 0 ELSE extra) + f.non_payables))>>

\* The rules in their order of calculation.  When the ratio has no value the
\* calculation stops there: the room figures are known, the amounts are not.
adjudicate(p, f) ==
    LET status == room_status(p, f)
        best   == apply_sum_insured(p, apply_co_pay(p, pre_copay(p, f, status)))
    IN  IF ratio_undefined(p, f, status)
        THEN [error |-> TRUE, room_status |-> status,
              extra_room_cost |-> extra_room_cost(p, f),
              insurer_pays_best |-> RInt(0), insurer_pays_low |-> RInt(0),
              insurer_pays_high |-> RInt(0), patient_pays |-> <<>>]
        ELSE [error |-> FALSE, room_status |-> status,
              extra_room_cost |-> extra_room_cost(p, f),
              insurer_pays_best |-> best,
              insurer_pays_low |-> lower_bound(p, best),
              insurer_pays_high |-> upper_bound(p, best),
              patient_pays |-> patient_pays(p, f, best)]

(***************************************************************************)
(* The claim-timeline rules of the system prompt (main.py 267-275,         *)
(* 303-312).  Time is counted in ticks of a quarter of an hour.            *)
(***************************************************************************)
TicksPerHour == 4

HoursPerDay == 24

TicksPerDay == HoursPerDay * TicksPerHour

\* "If time is missing, assume 09:00."
DefaultDischargeTime == 9 * TicksPerHour

\* Position of the first digit of s at or after i (0: none).
RECURSIVE FirstDigit(_, _)
FirstDigit(s, i) ==
    IF i > Len(s) THEN 0
    ELSE IF IsDigit(s[i]) THEN i
    ELSE FirstDigit(s, i + 1)

\* approval_days = integer parsed from POLICY.approval_time ("2 business
\* days" -> 2; words such as "business" are ignored); None when there is none.
approval_days(p) ==
    LET i == FirstDigit(p.approval_time, 1)
    IN  IF i = 0 THEN None
        ELSE IntOf(SubSeq(p.approval_time, i, DigitRunEnd(p.approval_time, i)))

\* discharge_dt = parsed from BILL TEXT; if only a date is present, the time is
\* 09:00.
discharge_dt(f) ==
    IF f.discharge_date = None THEN None
    ELSE f.discharge_date * TicksPerDay
           + (IF f.discharge_time = None THEN DefaultDischargeTime ELSE f.discharge_time)

\* completion_dt = discharge_dt + approval_days calendar days.
completion_dt(p, f) == discharge_dt(f) + approval_days(p) * TicksPerDay

\* Hours cut off instead of rounded.
truncate_hours(ticks) == {ticks \div TicksPerHour}

\* round(... in hours), "rounded to the nearest hour": the nearest whole number
\* of hours; the rules do not say which way an exact half hour goes (Python's
\* own round() takes the even neighbour), so both neighbours are possible.
round_hours(ticks) ==
    LET q == ticks \div TicksPerHour
        r == ticks % TicksPerHour
    IN  IF 2 * r < TicksPerHour THEN {q}
        ELSE IF 2 * r > TicksPerHour THEN {q + 1}
        ELSE {q, q + 1}

\* The results the timeline rules allow.
timelines(p, f, t) ==
    IF discharge_dt(f) = None \/ approval_days(p) = None
    THEN {[mode |-> "unavailable", hours_remaining |-> None, completion_at |-> None]}
    ELSE IF completion_dt(p, f) > t
         THEN {[mode |-> "hours_remaining", hours_remaining |-> h,
                completion_at |-> completion_dt(p, f)] :
                  h \in round_hours(completion_dt(p, f) - t)}
         ELSE {[mode |-> "completion_passed", hours_remaining |-> None,
                completion_at |-> completion_dt(p, f)]}

(***************************************************************************)
(* Values before a request has been answered                               *)
(***************************************************************************)
NoPolicy ==
    [room_type |-> "shared", cap_per_day |-> None, proportionate_deduction |-> FALSE,
     co_pay_pct |-> None, sum_insured |-> None, approval_time |-> <<>>]

NoFacts ==
    [billed_type |-> NotAvailable, rate_per_day |-> None, days |-> None,
     fixed_items |-> 0, other_charges |-> 0,
     total_bill |-> None, non_payables |-> 0,
     discharge_date |-> None, discharge_time |-> None]

NoAdjudication ==
    [error |-> FALSE, room_status |-> NotAvailable, extra_room_cost |-> None,
     insurer_pays_best |-> RInt(0), insurer_pays_low |-> RInt(0),
     insurer_pays_high |-> RInt(0), patient_pays |-> <<>>]

NoTimeline == [mode |-> "unavailable", hours_remaining |-> None, completion_at |-> None]

\* The fact helpers are called without a policy or a conversation.
NoClaim ==
    /\ policy = NoPolicy
    /\ facts = NoFacts
    /\ now = 0
    /\ adj = NoAdjudication
    /\ timeline = NoTimeline

\* No chat turn is in progress and nothing is stored.
NoServer ==
    /\ policy_files = <<>>
    /\ _POLICY_CACHE = <<>>
    /\ loads = <<>>
    /\ db = <<>>
    /\ response = <<>>
    /\ requests = <<>>

NoService ==
    /\ user_input = <<>>
    /\ intent = "none"
    /\ history = <<>>
    /\ calls = {}
    /\ NoServer

(***************************************************************************)
(* Bill texts: up to MaxLines lines of a pool, joined by newlines          *)
(***************************************************************************)
MaxLines == 3

TotalLinePool == <<
    \* "Net Payable 90"
    <<"N", "e", "t", " ", "P", "a", "y", "a", "b", "l", "e", " ", "9", "0">>,
    \* "net payable due"
    <<"n", "e", "t", " ", "p", "a", "y", "a", "b", "l", "e", " ", "d", "u", "e">>,
    \* "Amount  Payable: 80"
    <<"A", "m", "o", "u", "n", "t", " ", " ", "P", "a", "y", "a", "b", "l", "e", ":", " ", "8", "0">>,
    \* "GRAND TOTAL 70.5"
    <<"G", "R", "A", "N", "D", " ", "T", "O", "T", "A", "L", " ", "7", "0", ".", "5">>,
    \* "Total 50"
    <<"T", "o", "t", "a", "l", " ", "5", "0">>,
    \* "total 6 7.25"
    <<"t", "o", "t", "a", "l", " ", "6", " ", "7", ".", "2", "5">>,
    \* "Subtotal 40"
    <<"S", "u", "b", "t", "o", "t", "a", "l", " ", "4", "0">>,
    \* "Internet payable 30"
    <<"I", "n", "t", "e", "r", "n", "e", "t", " ", "p", "a", "y", "a", "b", "l", "e", " ", "3", "0">>,
    \* the empty line
    <<>> >>

\* '\n'.join(ls)
RECURSIVE Join(_)
Join(ls) ==
    IF ls = <<>> THEN <<>>
    ELSE IF Len(ls) = 1 THEN ls[1]
    ELSE ls[1] \o <<NL>> \o Join(Tail(ls))

SeqsUpTo(S, n) == UNION {[1..m -> S] : m \in 0..n}

TotalTexts == {Join(ls) : ls \in SeqsUpTo(Range(TotalLinePool), MaxLines)}

NoResult == [raised |-> FALSE, total |-> 0, items |-> <<>>]

(***************************************************************************)
(* POST /parse-total (api.py 484-486)                                      *)
(***************************************************************************)
InitTotal ==
    /\ pc = "start"
    /\ text \in TotalTexts
    /\ keywords = <<>>
    /\ total = None
    /\ nonpay = NoResult
    /\ NoClaim
    /\ NoService

parse_total ==
    /\ pc = "start"
    /\ total' = parse_total_amount(text)
    /\ pc' = "done"
    /\ UNCHANGED <<text, keywords, nonpay, policy, facts, now, adj, timeline>>
    /\ UNCHANGED service

NextTotal == parse_total

SpecTotal == InitTotal /\ [][NextTotal]_vars


(***************************************************************************)
(* Claims about parse_total_amount, checked under SpecTotal                *)
(***************************************************************************)
\* The priority the claims state, highest first.
Priority == <<"net_payable", "amount_payable", "grand_total", "total">>

\* For each pattern k, the lines the code can take an amount from: the
\* expression matches and the line has a numeric token.
Cand(lines) ==
    [k \in 1..Len(Priority) |->
        {j \in 1..Len(lines) : search(Priority[k], lines[j]) /\ last_amount(lines[j]) # None}]

\* The highest-priority pattern that has such a line (0: none has).
Chosen(cand) ==
    IF \A k \in DOMAIN cand : cand[k] = {} THEN 0
    ELSE CHOOSE k \in DOMAIN cand : cand[k] # {} /\ \A h \in 1..(k - 1) : cand[h] = {}

Max(S) == CHOOSE x \in S : \A y \in S : y <= x

\* The words of the pattern named p.
Word1(p) ==
    CASE p = "net_payable"    -> <<"n", "e", "t">>
      [] p = "amount_payable" -> <<"a", "m", "o", "u", "n", "t">>
      [] p = "grand_total"    -> <<"g", "r", "a", "n", "d">>
      [] p = "total"          -> <<"t", "o", "t", "a", "l">>

Word2(p) ==
    CASE p = "net_payable"    -> <<"p", "a", "y", "a", "b", "l", "e">>
      [] p = "amount_payable" -> <<"p", "a", "y", "a", "b", "l", "e">>
      [] p = "grand_total"    -> <<"t", "o", "t", "a", "l">>
      [] p = "total"          -> <<>>

\* The line contains the phrase of pattern p as whole words: a word boundary
\* before the first word and after the last.
WholeWordMatch(p, ln) ==
    \E i \in 1..Len(ln) :
        /\ WordBoundary(ln, i - 1)
        /\ LiteralAt(ln, i, Word1(p))
        /\ \E j \in (i + Len(Word1(p)))..(Len(ln) + 1) :
              /\ \A k \in (i + Len(Word1(p)))..(j - 1) : IsSpace(ln[k])
              /\ LiteralAt(ln, j, Word2(p))
              /\ WordBoundary(ln, j + Len(Word2(p)) - 1)

WholeWordLines(lines) ==
    [k \in 1..Len(Priority) |->
        {j \in 1..Len(lines) : WholeWordMatch(Priority[k], lines[j])}]

\* C1 as stated: if any line matches a pattern as whole words (case-insensitive)
\* and no line matches a higher-priority pattern, a returned amount is the
\* amount of a line of that pattern, wherever lower-priority lines stand.
C1_AsStated ==
    pc = "done" =>
        LET lines == splitlines(text)
            ww    == WholeWordLines(lines)
        IN  \A k \in DOMAIN ww :
                (total # None /\ ww[k] # {} /\ (\A h \in 1..(k - 1) : ww[h] = {}))
                    => \E j \in ww[k] : total = last_amount(lines[j])

\* C1 amended: among the patterns that have a matching line WITH a numeric
\* token, the highest-priority one decides: the returned amount is the amount of
\* one of its lines, wherever lower-priority lines stand (None when no pattern
\* has such a line); net payable, amount payable and grand total match
\* case-insensitively anywhere in a line (no word boundary), only total is a
\* whole word.
C1_Priority ==
    pc = "done" =>
        LET lines == splitlines(text)
            cand  == Cand(lines)
            ch    == Chosen(cand)
        IN  /\ ch = 0 => total = None
            /\ ch # 0 => \E j \in cand[ch] : total = last_amount(lines[j])

\* A net-payable line stands before a later 'Total' line with another amount,
\* and the net-payable amount is returned.
C1_Witness ==
    /\ pc = "done"
    /\ LET lines == splitlines(text)
           cand  == Cand(lines)
       IN  \E j \in cand[1] : \E i \in cand[4] :
              /\ j < i
              /\ last_amount(lines[i]) # last_amount(lines[j])
              /\ total = last_amount(lines[j])

\* C2 as stated: the amount comes from the last line of the text that matches
\* the deciding pattern, and is the last numeric token of that line.
C2_AsStated ==
    pc = "done" =>
        LET lines == splitlines(text)
            ch    == Chosen(Cand(lines))
            last  == Max({j \in 1..Len(lines) : search(Priority[ch], lines[j])})
        IN  ch # 0 => /\ last_amount(lines[last]) # None
                      /\ total = last_amount(lines[last])

\* C2 amended: the amount comes from the last line of the text that matches the
\* deciding pattern and has a numeric token (a later matching line without a
\* number does not override), and is the last numeric token of that line.
C2_LastLine ==
    pc = "done" =>
        LET lines == splitlines(text)
            cand  == Cand(lines)
            ch    == Chosen(cand)
            vals  == findall_numbers(lines[Max(cand[ch])])
        IN  ch # 0 => total = float(vals[Len(vals)])

\* Two lines of the deciding pattern carry different amounts, the later one has
\* several numeric tokens, and its last token is returned.
C2_Witness ==
    /\ pc = "done"
    /\ LET lines == splitlines(text)
           cand  == Cand(lines)
           ch    == Chosen(cand)
       IN  /\ ch # 0
           /\ \E i \in cand[ch] : \E j \in cand[ch] :
                 /\ i < j
                 /\ j = Max(cand[ch])
                 /\ Len(findall_numbers(lines[j])) > 1
                 /\ last_amount(lines[i]) # last_amount(lines[j])
                 /\ first_amount(lines[j]) # last_amount(lines[j])
                 /\ total = last_amount(lines[j])


(***************************************************************************)
(* POST /sum-non-payables (api.py 489-509) and POST /parse-total on bills  *)
(* with non-payable items                                                  *)
(***************************************************************************)
MaxItemLines == 2

MaxKeywords == 2

ItemLinePool == <<
    \* "fee 5"
    <<"f", "e", "e", " ", "5">>,
    \* "Lab FEE 7 2.5"
    <<"L", "a", "b", " ", "F", "E", "E", " ", "7", " ", "2", ".", "5">>,
    \* "foe 3"
    <<"f", "o", "e", " ", "3">>,
    \* "coffee 9"
    <<"c", "o", "f", "f", "e", "e", " ", "9">>,
    \* "fee waived"
    <<"f", "e", "e", " ", "w", "a", "i", "v", "e", "d">>,
    \* "tax 40"
    <<"t", "a", "x", " ", "4", "0">>,
    \* "Total 50"
    <<"T", "o", "t", "a", "l", " ", "5", "0">> >>

KeywordPool == <<
    <<"f", "e", "e">>,
    <<"T", "A", "X">>,
    <<"f", ".", "e">>,
    <<"(">> >>

ItemTexts == {Join(ls) : ls \in SeqsUpTo(Range(ItemLinePool), MaxItemLines)}

KeywordLists == SeqsUpTo(Range(KeywordPool), MaxKeywords)

InitFacts ==
    /\ pc = "start"
    /\ text \in ItemTexts
    /\ keywords \in KeywordLists
    /\ total = None
    /\ nonpay = NoResult
    /\ NoClaim
    /\ NoService

sum_non_payables_api ==
    /\ pc = "start"
    /\ nonpay' = sum_non_payables(text, keywords)
    /\ pc' = "done_items"
    /\ UNCHANGED <<text, keywords, total, policy, facts, now, adj, timeline>>
    /\ UNCHANGED service

NextFacts == parse_total \/ sum_non_payables_api

SpecFacts == InitFacts /\ [][NextFacts]_vars


(***************************************************************************)
(* Claims about sum_non_payables and about the fact helpers never raising, *)
(* checked under SpecFacts                                                 *)
(***************************************************************************)
\* The line contains the keyword itself, case-insensitively, as a whole word.
ContainsWord(kw, ln) ==
    \E i \in 1..Len(ln) :
        /\ WordBoundary(ln, i - 1)
        /\ LiteralAt(ln, i, kw)
        /\ WordBoundary(ln, i + Len(kw) - 1)

\* The pairs (keyword position, line position) the claim speaks of: the line
\* contains the keyword as a whole word and has a numeric token to report.
ItemPairs(kws, lines) ==
    {q \in (1..Len(kws)) \X (1..Len(lines)) :
        ContainsWord(kws[q[1]], lines[q[2]]) /\ last_amount(lines[q[2]]) # None}

\* Keyword position first, line position second.
Before(q, r) == q[1] < r[1] \/ (q[1] = r[1] /\ q[2] < r[2])

\* C3: sum_non_payables returns one item (keyword, last numeric token of the
\* line) for every pair of a keyword and a line that contains it as a
\* case-insensitive whole word, ordered by keyword position and then by line
\* position, and the total is the sum of the item amounts (stated of the calls
\* that return; that every call returns is C4).
C3_AsStated ==
    (pc = "done_items" /\ ~nonpay.raised) =>
        LET lines == splitlines(text)
            pairs == ItemPairs(keywords, lines)
        IN  /\ Len(nonpay.items) = Cardinality(pairs)
            /\ \A q \in pairs :
                  nonpay.items[1 + Cardinality({r \in pairs : Before(r, q)})]
                      = <<keywords[q[1]], last_amount(lines[q[2]])>>
            /\ nonpay.total = SumAmounts(nonpay.items)

\* C4: fact extraction never raises: parse_total_amount and sum_non_payables
\* return a value for every text and every keyword list.
C4_AsStated ==
    /\ pc = "done" => total = None \/ total >= 0
    /\ pc = "done_items" => ~nonpay.raised


(***************************************************************************)
(* Adjudication of one bill under one policy (the COMPUTATION LOGIC of the *)
(* prompt that chat_with_history sends, main.py 333-347)                   *)
(***************************************************************************)
MaxRate == 3

MaxDays == 2

MaxSumInsured == 3

RoomTypes == {"shared", "single_private", "any_room"}

BilledTypes == {"shared", "single_private", NotAvailable}

CoPayPcts == {None, 0, 20, 100}

FixedItemTotals == {0, 1}

OtherChargeTotals == {0, 2}

Policies ==
    {[room_type |-> t, cap_per_day |-> c, proportionate_deduction |-> d,
      co_pay_pct |-> q, sum_insured |-> s, approval_time |-> <<>>] :
        t \in RoomTypes, c \in {None} \cup 0..MaxRate, d \in BOOLEAN,
        q \in CoPayPcts, s \in {None} \cup 0..MaxSumInsured}

BillFacts ==
    {[billed_type |-> b, rate_per_day |-> r, days |-> n,
      fixed_items |-> x, other_charges |-> o,
      total_bill |-> None, non_payables |-> 0,
      discharge_date |-> None, discharge_time |-> None] :
        b \in BilledTypes, r \in {None} \cup 0..MaxRate, n \in {None} \cup 1..MaxDays,
        x \in FixedItemTotals, o \in OtherChargeTotals}

InitAdjudication ==
    /\ pc = "start"
    /\ text = <<>>
    /\ keywords = <<>>
    /\ total = None
    /\ nonpay = NoResult
    /\ policy \in Policies
    /\ facts \in BillFacts
    /\ now = 0
    /\ adj = NoAdjudication
    /\ timeline = NoTimeline
    /\ NoService

Adjudicate ==
    /\ pc = "start"
    /\ adj' = adjudicate(policy, facts)
    /\ pc' = "adjudicated"
    /\ UNCHANGED <<text, keywords, total, nonpay, policy, facts, now, timeline>>
    /\ UNCHANGED service

NextAdjudication == Adjudicate

SpecAdjudication == InitAdjudication /\ [][NextAdjudication]_vars

(***************************************************************************)
(* The claim timeline of one bill under one policy at one time             *)
(***************************************************************************)
MaxNow == 240

MaxDischargeDay == 1

ApprovalTimes == {
    \* "2 business days"
    <<"2", " ", "b", "u", "s", "i", "n", "e", "s", "s", " ", "d", "a", "y", "s">>,
    \* "1 day"
    <<"1", " ", "d", "a", "y">>,
    \* "within days"
    <<"w", "i", "t", "h", "i", "n", " ", "d", "a", "y", "s">>,
    \* ""
    <<>> }

\* Discharge times of day that the bill may state: 10:15 and 09:00.
DischargeTimes == {10 * TicksPerHour + 1, DefaultDischargeTime}

InitTimeline ==
    /\ pc = "start"
    /\ text = <<>>
    /\ keywords = <<>>
    /\ total = None
    /\ nonpay = NoResult
    /\ policy \in {[NoPolicy EXCEPT !.approval_time = a] : a \in ApprovalTimes}
    /\ facts \in {[NoFacts EXCEPT !.discharge_date = d, !.discharge_time = t] :
                     d \in {None} \cup 0..MaxDischargeDay,
                     t \in {None} \cup DischargeTimes}
    /\ now \in 0..MaxNow
    /\ adj = NoAdjudication
    /\ timeline = NoTimeline
    /\ NoService

Estimate ==
    /\ pc = "start"
    /\ timeline' \in timelines(policy, facts, now)
    /\ pc' = "estimated"
    /\ UNCHANGED <<text, keywords, total, nonpay, policy, facts, now, adj>>
    /\ UNCHANGED service

NextTimeline == Estimate

SpecTimeline == InitTimeline /\ [][NextTimeline]_vars


(***************************************************************************)
(* Claims about the adjudication rules, checked under SpecAdjudication     *)
(***************************************************************************)
\* C5: with rate_per_day, cap_per_day and days resolved and rate_per_day >
\* cap_per_day, room_status is over_limit and extra_room_cost is
\* (rate_per_day - cap_per_day) * days, whatever the billed and eligible room
\* types are.
C5_OverLimit ==
    (/\ pc = "adjudicated"
     /\ facts.rate_per_day # None /\ policy.cap_per_day # None /\ facts.days # None
     /\ facts.rate_per_day > policy.cap_per_day)
        => /\ adj.room_status = "over_limit"
           /\ adj.extra_room_cost = (facts.rate_per_day - policy.cap_per_day) * facts.days

\* The rate exceeds the cap over several days although the billed room type is
\* below the eligible one.
C5_Witness ==
    /\ pc = "adjudicated"
    /\ facts.billed_type = "shared" /\ policy.room_type = "any_room"
    /\ facts.rate_per_day # None /\ policy.cap_per_day # None /\ facts.days # None
    /\ facts.rate_per_day > policy.cap_per_day + 1
    /\ facts.days > 1
    /\ adj.room_status = "over_limit"
    /\ adj.extra_room_cost = (facts.rate_per_day - policy.cap_per_day) * facts.days

\* C6: whenever the policy sets sum_insured, insurer_pays_best is at most
\* sum_insured, for every combination of bill facts, co-pay and room rules.
C6_SumInsuredCap ==
    (pc = "adjudicated" /\ ~adj.error /\ policy.sum_insured # None)
        => RLeq(adj.insurer_pays_best, RInt(policy.sum_insured))

\* The amount after co-pay exceeds the sum insured, and the sum insured is
\* what the insurer pays.
C6_Witness ==
    /\ pc = "adjudicated" /\ ~adj.error
    /\ policy.sum_insured # None /\ policy.sum_insured > 0
    /\ policy.co_pay_pct # None /\ policy.co_pay_pct > 0
    /\ ~RLeq(apply_co_pay(policy, pre_copay(policy, facts, adj.room_status)),
             RInt(policy.sum_insured))
    /\ adj.insurer_pays_best = RInt(policy.sum_insured)

\* C7: whenever sum_insured is present, each reported estimate (the lower
\* bound, the best estimate and the upper bound) is at most sum_insured.
C7_RangeCap ==
    (pc = "adjudicated" /\ ~adj.error /\ policy.sum_insured # None)
        => /\ RLeq(adj.insurer_pays_low, RInt(policy.sum_insured))
           /\ RLeq(adj.insurer_pays_best, RInt(policy.sum_insured))
           /\ RLeq(adj.insurer_pays_high, RInt(policy.sum_insured))

\* The best estimate is below the sum insured, 1.05 times it is above, and the
\* upper bound reported is the sum insured.
C7_Witness ==
    /\ pc = "adjudicated" /\ ~adj.error
    /\ policy.sum_insured # None
    /\ adj.insurer_pays_best # RInt(policy.sum_insured)
    /\ ~RLeq(RMul(adj.insurer_pays_best, Rat(105, 100)), RInt(policy.sum_insured))
    /\ adj.insurer_pays_high = RInt(policy.sum_insured)
    /\ ~RLeq(adj.insurer_pays_best, adj.insurer_pays_low)

\* C8: with room rules, sum_insured and bill facts fixed, insurer_pays_best
\* does not increase when co_pay_pct increases: every co-pay at least the
\* policy's yields an insurer_pays_best no greater than the policy's.
C8_CoPayMonotone ==
    (pc = "adjudicated" /\ ~adj.error /\ policy.co_pay_pct # None)
        => \A q \in CoPayPcts \ {None} :
              q >= policy.co_pay_pct
                  => RLeq(adjudicate([policy EXCEPT !.co_pay_pct = q], facts).insurer_pays_best,
                          adj.insurer_pays_best)

\* A higher co-pay strictly lowers what the insurer pays, with the
\* proportionate ratio below 1 and a sum insured in force.
C8_Witness ==
    /\ pc = "adjudicated" /\ ~adj.error
    /\ policy.co_pay_pct = 0
    /\ policy.sum_insured # None
    /\ deduction_applies(policy, adj.room_status)
    /\ ratio(policy, facts, adj.room_status) # RInt(1)
    /\ \E q \in CoPayPcts \ {None} :
          /\ q > 0 /\ q < 100
          /\ ~RLeq(adj.insurer_pays_best,
                   adjudicate([policy EXCEPT !.co_pay_pct = q], facts).insurer_pays_best)

\* C9: the core never fails: for every policy and every partial set of bill
\* facts (rate_per_day or cap_per_day equal to 0 included) the adjudication
\* ends with a result, and no step, the proportionate ratio cap_per_day /
\* rate_per_day included, raises an error.
C9_AsStated == pc = "adjudicated" => ~adj.error

(***************************************************************************)
(* Claims about the timeline rules, checked under SpecTimeline             *)
(***************************************************************************)
\* The days the policy states: the number written in approval_time, if any.
StatedDays ==
    IF \A i \in 1..Len(policy.approval_time) : ~IsDigit(policy.approval_time[i])
    THEN None
    ELSE LET i == CHOOSE k \in 1..Len(policy.approval_time) :
                      /\ IsDigit(policy.approval_time[k])
                      /\ \A h \in 1..(k - 1) : ~IsDigit(policy.approval_time[h])
         IN  DigitVal(policy.approval_time[i])

\* discharge_at: the discharge date with its time of day, 09:00 by default.
DischargeAt ==
    IF facts.discharge_date = None THEN None
    ELSE 24 * TicksPerHour * facts.discharge_date
           + (IF facts.discharge_time = None THEN 9 * TicksPerHour ELSE facts.discharge_time)

Unresolved == DischargeAt = None \/ StatedDays = None

CompletionAt == DischargeAt + StatedDays * 24 * TicksPerHour

\* Whole hours of t ticks, a half hour rounded up.
HalfUp(t) == (2 * t + TicksPerHour) \div (2 * TicksPerHour)

Abs(x) == IF x < 0 THEN -x ELSE x

\* C10 as stated: mode is unavailable exactly when discharge_at or
\* approval_days is unresolved; otherwise completion_at = discharge_at +
\* approval_days calendar days, and mode is hours_remaining with
\* hours_remaining = (completion_at - now) in hours rounded half-up when
\* completion_at > now, and completion_passed otherwise.
C10_AsStated ==
    pc = "estimated" =>
        /\ timeline.mode = "unavailable" <=> Unresolved
        /\ ~Unresolved =>
              /\ timeline.completion_at = CompletionAt
              /\ IF CompletionAt > now
                 THEN /\ timeline.mode = "hours_remaining"
                      /\ timeline.hours_remaining = HalfUp(CompletionAt - now)
                 ELSE timeline.mode = "completion_passed"

\* C10 amended: as stated, except that hours_remaining is (completion_at -
\* now) in hours rounded to the nearest hour: it differs from the exact
\* difference by at most half an hour, and an exact half hour may go either way.
C10_NearestHour ==
    pc = "estimated" =>
        /\ timeline.mode = "unavailable" <=> Unresolved
        /\ ~Unresolved =>
              /\ timeline.completion_at = CompletionAt
              /\ IF CompletionAt > now
                 THEN /\ timeline.mode = "hours_remaining"
                      /\ 2 * Abs(timeline.hours_remaining * TicksPerHour - (CompletionAt - now))
                            <= TicksPerHour
                 ELSE timeline.mode = "completion_passed"

\* Discharge on day 0 (09:00 by default), "2 business days", now day 1 at
\* 09:00: completion on day 2 at 09:00, 24 hours remaining.
C10_Witness ==
    /\ pc = "estimated"
    /\ facts.discharge_date = 0 /\ facts.discharge_time = None
    /\ StatedDays = 2
    /\ now = 24 * TicksPerHour + 9 * TicksPerHour
    /\ timeline.mode = "hours_remaining"
    /\ timeline.hours_remaining = 24
    /\ timeline.completion_at = 2 * 24 * TicksPerHour + 9 * TicksPerHour

(***************************************************************************)
(* INTENT ROUTING of the system prompt (prompts.py 37-45, 71-72, 93-94,    *)
(* 109-110, 120-121, 130-133, 171-187; main.py 247-278).  A user text is a  *)
(* sequence of words.  The prompt names what triggers each path and asks   *)
(* for one path to be picked ("pick the most appropriate path", "pick      *)
(* exactly one path"); it ranks the paths in no order, so a text that      *)
(* triggers several paths may be answered on any one of them.              *)
(***************************************************************************)
lower(w) == [i \in DOMAIN w |-> Lower(w[i])]

\* The words that trigger each path.
triggers ==
    [greeting |->
        {<<"h", "i">>,
         <<"h", "e", "l", "l", "o">>,
         <<"t", "h", "a", "n", "k", "s">>},
     out_of_context |->
        {<<"c", "o", "d", "i", "n", "g">>,
         <<"r", "e", "c", "i", "p", "e", "s">>,
         <<"n", "e", "w", "s">>,
         <<"s", "p", "o", "r", "t", "s">>},
     room_analysis |->
        {<<"r", "o", "o", "m">>,
         <<"r", "e", "n", "t">>,
         <<"b", "e", "d">>,
         <<"w", "a", "r", "d">>,
         <<"s", "h", "a", "r", "i", "n", "g">>,
         <<"s", "i", "n", "g", "l", "e">>,
         <<"p", "r", "i", "v", "a", "t", "e">>},
     timeline |->
        {<<"w", "h", "e", "n">>,
         <<"t", "a", "t">>,
         <<"s", "t", "a", "t", "u", "s">>},
     breakdown |->
        {<<"b", "r", "e", "a", "k", "d", "o", "w", "n">>,
         <<"i", "t", "e", "m", "i", "z", "e">>,
         <<"d", "e", "t", "a", "i", "l", "s">>},
     specific_value |->
        {<<"c", "o", "p", "a", "y">>,
         <<"d", "e", "d", "u", "c", "t", "i", "b", "l", "e">>},
     coverage_estimate |->
        {<<"c", "o", "v", "e", "r">>,
         <<"e", "s", "t", "i", "m", "a", "t", "e">>,
         <<"c", "o", "v", "e", "r", "a", "g", "e">>}]

\* The paths a trigger can select; "other" is the path of every other text.
routed_paths == DOMAIN triggers \ {"greeting"}

\* "If the user just says hi/hello/thanks": the text holds nothing else.
just_greets(t) ==
    /\ t # <<>>
    /\ \A i \in DOMAIN t : lower(t[i]) \in triggers.greeting

\* "Triggers when the user asks ...": the text carries a word of the path.
asks(t, path) == \E i \in DOMAIN t : lower(t[i]) \in triggers[path]

matching(t) ==
    {path \in routed_paths : asks(t, path)}
        \cup (IF just_greets(t) THEN {"greeting"} ELSE {})

\* A routing that may also fall back to "other" when a path is triggered.
paths_or_other(t) == matching(t) \cup {"other"}

\* The paths the prompt allows for a text.
paths(t) == IF matching(t) = {} THEN {"other"} ELSE matching(t)

(***************************************************************************)
(* One user text routed once                                               *)
(***************************************************************************)
MaxWords == 2

WordPool == {
    \* "hi"
    <<"h", "i">>,
    \* "Thanks"
    <<"T", "h", "a", "n", "k", "s">>,
    \* "room"
    <<"r", "o", "o", "m">>,
    \* "WARD"
    <<"W", "A", "R", "D">>,
    \* "when"
    <<"w", "h", "e", "n">>,
    \* "TAT"
    <<"T", "A", "T">>,
    \* "details"
    <<"d", "e", "t", "a", "i", "l", "s">>,
    \* "copay"
    <<"c", "o", "p", "a", "y">>,
    \* "estimate"
    <<"e", "s", "t", "i", "m", "a", "t", "e">>,
    \* "recipes"
    <<"r", "e", "c", "i", "p", "e", "s">>,
    \* "claim"
    <<"c", "l", "a", "i", "m">> }

UserTexts == SeqsUpTo(WordPool, MaxWords)

InitIntent ==
    /\ pc = "start"
    /\ text = <<>>
    /\ keywords = <<>>
    /\ total = None
    /\ nonpay = NoResult
    /\ NoClaim
    /\ user_input \in UserTexts
    /\ intent = "none"
    /\ history = <<>>
    /\ calls = {}
    /\ NoServer

route ==
    /\ pc = "start"
    /\ intent' \in paths(user_input)
    /\ pc' = "routed"
    /\ UNCHANGED <<text, keywords, total, nonpay, policy, facts, now, adj, timeline>>
    /\ UNCHANGED <<user_input, history, calls>>
    /\ UNCHANGED server

NextIntent == route

SpecIntent == InitIntent /\ [][NextIntent]_vars

(***************************************************************************)
(* Claims about intent routing, checked under SpecIntent                   *)
(***************************************************************************)
Precedence == <<"greeting", "out_of_context", "room_analysis", "timeline",
                "breakdown", "specific_value", "coverage_estimate", "other">>

\* A category applies to the text: its vocabulary occurs in it (greeting:
\* the text is greeting words only); "other" applies to every text.
Applies(cat) ==
    CASE cat = "other" -> TRUE
      [] cat = "greeting" ->
            /\ user_input # <<>>
            /\ \A i \in DOMAIN user_input :
                  lower(user_input[i]) \in triggers.greeting
      [] OTHER ->
            \E i \in DOMAIN user_input : lower(user_input[i]) \in triggers[cat]

FirstApplying ==
    Precedence[CHOOSE k \in DOMAIN Precedence :
                  /\ Applies(Precedence[k])
                  /\ \A j \in 1..(k - 1) : ~Applies(Precedence[j])]

\* C11 as stated: every routed text gets the intent of the first category,
\* in the order greeting, out_of_context, room_analysis, timeline, breakdown,
\* specific_value, coverage_estimate, other, that applies to it.
C11_AsStated == pc = "routed" => intent = FirstApplying

\* C11 amended: every routed text gets exactly one intent of the eight; it
\* is a category that applies to the text, and it is "other" exactly when
\* no other category applies.
C11_OnePath ==
    pc = "routed" =>
        /\ intent \in Range(Precedence)
        /\ Applies(intent)
        /\ (intent = "other") <=> (\A k \in 1..7 : ~Applies(Precedence[k]))

\* A text with room and timeline vocabulary has been routed.
C11_Witness ==
    /\ pc = "routed"
    /\ Applies("room_analysis")
    /\ Applies("timeline")
    /\ intent = "room_analysis"

(***************************************************************************)
(* chat_with_history (main.py 333-347).  Every message is a record of a    *)
(* role and a content; a content keeps what the text is made of:           *)
(*   the system message   the policy, the bill text and the time read      *)
(*                        from the clock (main.py 334),                    *)
(*   a user message       the user's words,                                *)
(*   a reply              what the model was given: the model is called    *)
(*                        with the whole list, and its reply is taken to   *)
(*                        be determined by that list.                      *)
(***************************************************************************)
content(said, p, bill, t, seen) ==
    [said |-> said, policy |-> p, bill |-> bill, current_datetime |-> t,
     seen |-> seen]

\* SYSTEM_PROMPT + POLICY + BILL + CURRENT_DATETIME (main.py 334).
system_msg(p, bill, t) == content(<<>>, p, bill, t, 0)

user_msg(said) == content(said, NoPolicy, <<>>, None, 0)

message(role, c) == [role |-> role, content |-> c]

\* chat_client.invoke(history) and _resp_text (main.py 343-344): the reply
\* to the last message of the list under the list's first message, given
\* Len(h) messages in all.
invoke(h) ==
    content(h[Len(h)].content.said, h[1].content.policy, h[1].content.bill,
            h[1].content.current_datetime, Len(h))

\* A variant that always inserts a new system message.
always_insert(h, sm) == <<message("system", sm)>> \o h

\* main.py 336-339.
put_system(h, sm) ==
    IF h = <<>> \/ h[1].role # "system"
    THEN <<message("system", sm)>> \o h
    ELSE [h EXCEPT ![1].content = sm]

\* main.py 334-341: the list as it is handed to the model.
asked(h, p, bill, said, t) ==
    Append(put_system(h, system_msg(p, bill, t)), message("user", user_msg(said)))

\* main.py 343-347: the list after the call, and the reply returned.
chat_with_history(h, p, bill, said, t) ==
    LET given == asked(h, p, bill, said, t)
        reply == invoke(given)
    IN  [history |-> Append(given, message("assistant", reply)), reply |-> reply]

(***************************************************************************)
(* Callers of chat_with_history.  Each caller keeps one history list and   *)
(* calls with it turn after turn; all callers start from equal lists and   *)
(* pass the same policy, bill text and user input.  The clock that         *)
(* datetime.now() reads is the variable now; it advances on its own.       *)
(***************************************************************************)
MaxTurns == 2

MaxClock == 2

Callers == {1, 2}

\* The lists a first call can get: the empty list, or the stored messages
\* of a conversation (api.py 412-415), which are user and assistant turns.
StoredHistories(said) ==
    {<<>>,
     <<message("user", user_msg(said)),
       message("assistant", content(said, NoPolicy, <<>>, 0, 2))>>}

TurnPolicies == {NoPolicy, [NoPolicy EXCEPT !.co_pay_pct = 20]}

TurnBills == {TotalLinePool[5]}

TurnTexts == {<< <<"w", "h", "e", "n">> >>, <<>>}

InitTurns ==
    /\ pc = "start"
    /\ text \in TurnBills
    /\ keywords = <<>>
    /\ total = None
    /\ nonpay = NoResult
    /\ policy \in TurnPolicies
    /\ facts = NoFacts
    /\ now = 0
    /\ adj = NoAdjudication
    /\ timeline = NoTimeline
    /\ user_input \in TurnTexts
    /\ intent = "none"
    /\ \E h \in StoredHistories(user_input) : history = [c \in Callers |-> h]
    /\ calls = {}
    /\ NoServer

Turns(c) == Cardinality({call \in calls : call.caller = c})

\* One call that returns: the caller's list is changed in place.
chat_turn(c) ==
    /\ Turns(c) < MaxTurns
    /\ LET r == chat_with_history(history[c], policy, text, user_input, now)
       IN  /\ history' = [history EXCEPT ![c] = r.history]
           /\ calls' = calls \cup
                  {[caller |-> c, raised |-> FALSE, before |-> history[c],
                    policy |-> policy, bill_text |-> text,
                    user_input |-> user_input,
                    after |-> r.history, reply |-> r.reply]}
    /\ UNCHANGED <<pc, text, keywords, total, nonpay, policy, facts, now, adj,
                   timeline, user_input, intent>>
    /\ UNCHANGED server

\* One call in which the model call raises (main.py 343): the list keeps
\* the system and user messages already put into it, and nothing is
\* returned.
chat_turn_raises(c) ==
    /\ Turns(c) < MaxTurns
    /\ LET given == asked(history[c], policy, text, user_input, now)
       IN  /\ history' = [history EXCEPT ![c] = given]
           /\ calls' = calls \cup
                  {[caller |-> c, raised |-> TRUE, before |-> history[c],
                    policy |-> policy, bill_text |-> text,
                    user_input |-> user_input,
                    after |-> given, reply |-> user_msg(<<>>)]}
    /\ UNCHANGED <<pc, text, keywords, total, nonpay, policy, facts, now, adj,
                   timeline, user_input, intent>>
    /\ UNCHANGED server

tick ==
    /\ now < MaxClock
    /\ now' = now + 1
    /\ UNCHANGED <<pc, text, keywords, total, nonpay, policy, facts, adj,
                   timeline, user_input, intent, history, calls>>
    /\ UNCHANGED server

NextTurns ==
    \/ \E c \in Callers : chat_turn(c)
    \/ \E c \in Callers : chat_turn_raises(c)
    \/ tick

SpecTurns == InitTurns /\ [][NextTurns]_vars

(***************************************************************************)
(* Claims about chat_with_history, checked under SpecTurns                 *)
(***************************************************************************)
Returned == {call \in calls : ~call.raised}

SameInputs(a, b) ==
    /\ a.before = b.before
    /\ a.policy = b.policy
    /\ a.bill_text = b.bill_text
    /\ a.user_input = b.user_input

\* C12: the reply is a function of the explicit inputs only: two calls with
\* identical history, policy, bill text and user input return identical
\* replies, whatever the clock shows when each is made.
C12_AsStated ==
    \A a \in Returned : \A b \in Returned :
        SameInputs(a, b) => a.reply = b.reply

IsSystem(m) == m.role = "system"

NotSystem(m) == m.role # "system"

\* C20: after a call returns, the list has exactly one system message, at
\* the front, built from the call's policy and bill text (inserted when the
\* list was empty or did not start with a system message, overwritten
\* otherwise); the earlier non-system entries follow it with content and
\* order unchanged; and the last two entries are the new user input and the
\* assistant reply that the call returned.
C20_HistoryShape ==
    \A call \in Returned :
        LET before == call.before
            after == call.after
            n == Len(after)
            starts_with_system == before # <<>> /\ IsSystem(before[1])
        IN  /\ n >= 3
            /\ IsSystem(after[1])
            /\ Cardinality({i \in 1..n : IsSystem(after[i])}) = 1
            /\ after[1].content.policy = call.policy
            /\ after[1].content.bill = call.bill_text
            /\ n = Len(before) + (IF starts_with_system THEN 2 ELSE 3)
            /\ SubSeq(after, 2, n - 2) = SelectSeq(before, NotSystem)
            /\ after[n - 1] = message("user", user_msg(call.user_input))
            /\ after[n] = message("assistant", call.reply)

\* A call has returned on a list that started with a system message and
\* held earlier turns.
C20_Witness ==
    \E call \in Returned :
        /\ Len(call.before) >= 3
        /\ IsSystem(call.before[1])
        /\ Len(call.after) = Len(call.before) + 2

(***************************************************************************)
(* Policy data (main.py 49-68).  An optional value is a sequence: <<>> is  *)
(* None (or a file that cannot be opened), <<m>> is the mapping m from     *)
(* insurer to plan to policy.                                              *)
(***************************************************************************)
SilverPlan == [NoPolicy EXCEPT !.co_pay_pct = 20]

GoldPlan == [NoPolicy EXCEPT !.sum_insured = 3]

\* The contents policy.json can have; other.json holds the second.
OnePlan == "HDFC" :> ("SILVER" :> SilverPlan)

TwoPlans == "HDFC" :> ("SILVER" :> GoldPlan @@ "GOLD" :> SilverPlan)

PolicyMappings == {OnePlan, TwoPlans}

DefaultPath == "policy.json"

OtherPath == "other.json"

\* open(path) and json.load (main.py 50-51): <<>> when open raises.
load_policy_data(files, path) == files[path]

\* A get_policy that answers a failed load with an empty mapping.
get_policy_or_empty(cache, found) ==
    IF cache # <<>> THEN [raised |-> FALSE, cache |-> cache, loaded |-> <<>>]
    ELSE IF found = <<>>
         THEN [raised |-> FALSE, cache |-> << <<>> >>, loaded |-> <<>>]
         ELSE [raised |-> FALSE, cache |-> found, loaded |-> found]

\* A get_policy that loads the file on every call.
reload_policy(cache, found) ==
    IF found = <<>> THEN [raised |-> TRUE, cache |-> cache, loaded |-> <<>>]
    ELSE [raised |-> FALSE, cache |-> found, loaded |-> found]

\* get_policy (main.py 55-59) with the module's cache and what the load at
\* the path finds: whether it raises, the cache afterwards, and the mapping
\* that was read from the file (if one was).
get_policy(cache, found) ==
    IF cache # <<>> THEN [raised |-> FALSE, cache |-> cache, loaded |-> <<>>]
    ELSE IF found = <<>>
         THEN [raised |-> TRUE, cache |-> <<>>, loaded |-> <<>>]
         ELSE [raised |-> FALSE, cache |-> found, loaded |-> found]

\* list_insurers (main.py 61-62); the sorted list is kept as the set of keys.
list_insurers(policy_data) == DOMAIN policy_data

\* list_plans (main.py 64-68).
list_plans(policy_data, insurer) ==
    IF insurer \notin DOMAIN policy_data THEN {} ELSE DOMAIN policy_data[insurer]

\* A lookup that falls back to some plan of the insurer for an unknown plan.
lookup_any_plan(policy_data, insurer, plan) ==
    IF insurer \notin DOMAIN policy_data
    THEN [status |-> 400, policy |-> NoPolicy]
    ELSE IF plan \notin DOMAIN policy_data[insurer]
         THEN [status |-> 200,
               policy |-> policy_data[insurer][CHOOSE q \in DOMAIN policy_data[insurer] : TRUE]]
         ELSE [status |-> 200, policy |-> policy_data[insurer][plan]]

\* api.py 404-409: the plan's policy, or the 400 of an unknown insurer or plan.
lookup(policy_data, insurer, plan) ==
    IF insurer \notin DOMAIN policy_data
    THEN [status |-> 400, policy |-> NoPolicy]
    ELSE IF plan \notin DOMAIN policy_data[insurer]
         THEN [status |-> 400, policy |-> NoPolicy]
         ELSE [status |-> 200, policy |-> policy_data[insurer][plan]]

(***************************************************************************)
(* The stored rows (models.py 12-46).  db holds what is committed: every   *)
(* handler runs in one session that get_db commits when the handler        *)
(* returns and rolls back when it raises (database.py 30-40).  A row's     *)
(* created_at is the time of its transaction (server_default now()).       *)
(***************************************************************************)
EmptyDb ==
    [conversations |-> <<>>, messages |-> {},
     conversation_id_seq |-> 0, message_id_seq |-> 0]

Conversation(insurer, plan, bill_text, t) ==
    [insurer |-> insurer, plan |-> plan, bill_text |-> bill_text,
     created_at |-> t, updated_at |-> t]

Message(id, conversation_id, role, c, t) ==
    [id |-> id, conversation_id |-> conversation_id, role |-> role,
     content |-> c, created_at |-> t]

messages_of(d, id) == {m \in d.messages : m.conversation_id = id}

\* db.add(conversation), flush, commit (api.py 257-264).
insert_conversation(d, row) ==
    [d EXCEPT !.conversation_id_seq = @ + 1,
              !.conversations = (d.conversation_id_seq + 1) :> row @@ @]

\* A delete that removes the conversation row only.
delete_without_cascade(d, id) ==
    [d EXCEPT !.conversations =
                  [k \in DOMAIN d.conversations \ {id} |-> d.conversations[k]]]

\* db.delete(conversation) with cascade="all, delete-orphan" (api.py 353,
\* models.py 27-29, 36-38).
delete_cascade(d, id) ==
    [d EXCEPT !.conversations =
                  [k \in DOMAIN d.conversations \ {id} |-> d.conversations[k]],
              !.messages = d.messages \ messages_of(d, id)]

\* sorted(conversation.messages, key=lambda m: m.created_at) (api.py 414):
\* the rows arrive in no stated order and the sort keeps the order of rows
\* of equal created_at, so such rows may come either way round.
RECURSIVE sorted_by_created_at(_)
sorted_by_created_at(rows) ==
    IF rows = {} THEN {<<>>}
    ELSE UNION {{<<m>> \o rest : rest \in sorted_by_created_at(rows \ {m})} :
                  m \in {r \in rows : \A q \in rows : r.created_at <= q.created_at}}

\* api.py 412-415.
history_dicts(rows) ==
    {[i \in DOMAIN h |-> message(h[i].role, h[i].content)] :
        h \in sorted_by_created_at(rows)}

\* A chat that stores the user's message although the model call raised.
persist_user_first(d, id, said, reply, ok, t) ==
    IF ok
    THEN {Message(d.message_id_seq + 1, id, "user", user_msg(said), t),
          Message(d.message_id_seq + 2, id, "assistant", reply, t)}
    ELSE {Message(d.message_id_seq + 1, id, "user", user_msg(said), t)}

\* api.py 428-443: the rows a chat adds; none when chat_with_history raised,
\* because the handler is left before db.add.
new_messages(d, id, said, reply, ok, t) ==
    IF ok
    THEN {Message(d.message_id_seq + 1, id, "user", user_msg(said), t),
          Message(d.message_id_seq + 2, id, "assistant", reply, t)}
    ELSE {}

\* api.py 439-446 and the commit: the rows are stored and the conversation's
\* updated_at becomes the assistant message's created_at.
insert_messages(d, id, rows, t) ==
    IF rows = {} THEN d
    ELSE [d EXCEPT !.messages = @ \cup rows,
                   !.message_id_seq = @ + Cardinality(rows),
                   !.conversations[id].updated_at = t]

\* A response: the handler, the conversation id of the request (0 when it
\* has none), the status code, whether the model was called, and the body:
\* <<>> or <<b>>, with a list of names kept as a mapping from its names.
Response(request, id, status, invoked, body) ==
    [request |-> request, id |-> id, status |-> status, invoked |-> invoked,
     body |-> body]

names(keys) == <<[k \in keys |-> TRUE]>>

(***************************************************************************)
(* The HTTP handlers (api.py), one request after another.  Each action is  *)
(* one request from its arrival to the commit or rollback of its session.  *)
(* The clock now gives the time of the transaction; the next transaction   *)
(* that stores rows starts at a later time.                                *)
(***************************************************************************)
MaxConversations == 2

MaxChats == 2

MaxLoads == 3

\* The insurer and plan a conversation is created with (api.py 208-211
\* checks neither against the policy data): HDFC has a GOLD plan in one of
\* the two mappings only, and no mapping has an insurer hdfc.
CreateRequests == {<<"HDFC", "GOLD">>, <<"hdfc", "SILVER">>}

PlansRequests == {"HDFC", "hdfc"}

\* "when"
ChatTexts == {<< <<"w", "h", "e", "n">> >>}

ConversationIds == 1..MaxConversations

FileContents == {<<>>} \cup {<<m>> : m \in PolicyMappings}

engine == <<pc, text, keywords, total, nonpay, policy, facts, adj, timeline>>

NoResponse == Response("none", 0, 0, FALSE, <<>>)

InitServer ==
    /\ pc = "serving"
    /\ text = <<>>
    /\ keywords = <<>>
    /\ total = None
    /\ nonpay = NoResult
    /\ NoClaim
    /\ user_input = <<>>
    /\ intent = "none"
    /\ history = <<>>
    /\ calls = {}
    /\ \E f \in FileContents :
          policy_files = (DefaultPath :> f @@ OtherPath :> <<TwoPlans>>)
    /\ _POLICY_CACHE = <<>>
    /\ loads = <<>>
    /\ db = EmptyDb
    /\ response = NoResponse
    /\ requests = <<>>

\* What a call of get_policy leaves in the cache and adds to the loads.
use_policy(g) ==
    /\ _POLICY_CACHE' = g.cache
    /\ loads' = loads \o g.loaded

\* The policy file is replaced, removed or created by its owner.
edit_policy_file ==
    /\ \E f \in FileContents :
          /\ f # policy_files[DefaultPath]
          /\ policy_files' = [policy_files EXCEPT ![DefaultPath] = f]
    /\ response' = NoResponse
    /\ UNCHANGED <<engine, requests, now, turns, _POLICY_CACHE, loads, db>>

\* get_policy(path) called directly (main.py 55-59).
call_get_policy(path) ==
    /\ Len(loads) < MaxLoads
    /\ LET g == get_policy(_POLICY_CACHE, load_policy_data(policy_files, path))
       IN  /\ use_policy(g)
           /\ response' = IF g.raised
                          THEN Response("get_policy", 0, 500, FALSE, <<>>)
                          ELSE Response("get_policy", 0, 200, FALSE, g.cache)
    /\ UNCHANGED <<engine, requests, now, turns, policy_files, db>>

\* GET /policy (api.py 78-80).
policy_route ==
    /\ Len(loads) < MaxLoads
    /\ LET g == get_policy(_POLICY_CACHE, load_policy_data(policy_files, DefaultPath))
       IN  /\ use_policy(g)
           /\ response' = IF g.raised
                          THEN Response("policy", 0, 500, FALSE, <<>>)
                          ELSE Response("policy", 0, 200, FALSE, g.cache)
    /\ UNCHANGED <<engine, requests, now, turns, policy_files, db>>

\* GET /insurers (api.py 83-85).
insurers ==
    /\ Len(loads) < MaxLoads
    /\ LET g == get_policy(_POLICY_CACHE, load_policy_data(policy_files, DefaultPath))
       IN  /\ use_policy(g)
           /\ response' = IF g.raised
                          THEN Response("insurers", 0, 500, FALSE, <<>>)
                          ELSE Response("insurers", 0, 200, FALSE,
                                        names(list_insurers(g.cache[1])))
    /\ UNCHANGED <<engine, requests, now, turns, policy_files, db>>

\* GET /plans (api.py 88-93).
plans(insurer) ==
    /\ Len(loads) < MaxLoads
    /\ LET g == get_policy(_POLICY_CACHE, load_policy_data(policy_files, DefaultPath))
       IN  /\ use_policy(g)
           /\ response' =
                 IF g.raised THEN Response("plans", 0, 500, FALSE, <<>>)
                 ELSE LET result == list_plans(g.cache[1], insurer)
                      IN  IF result = {}
                          THEN Response("plans", 0, 404, FALSE, <<>>)
                          ELSE Response("plans", 0, 200, FALSE, names(result))
    /\ UNCHANGED <<engine, requests, now, turns, policy_files, db>>

\* POST /conversations (api.py 251-273).
create_conversation(insurer, plan) ==
    /\ db.conversation_id_seq < MaxConversations
    /\ db' = insert_conversation(db, Conversation(insurer, plan, TotalLinePool[5], now))
    /\ response' = Response("create_conversation", db.conversation_id_seq + 1,
                            200, FALSE, <<>>)
    /\ now' = now + 1
    /\ UNCHANGED <<engine, requests, turns, policy_files, _POLICY_CACHE, loads>>

\* GET /conversations/{id} (api.py 304-336): the conversation's messages
\* sorted by created_at (api.py 327-335).
get_conversation(id) ==
    /\ IF id \in DOMAIN db.conversations
       THEN \E all_messages \in sorted_by_created_at(messages_of(db, id)) :
               response' = Response("get_conversation", id, 200, FALSE,
                                    <<[messages |-> all_messages]>>)
       ELSE response' = Response("get_conversation", id, 404, FALSE, <<>>)
    /\ UNCHANGED <<engine, requests, now, turns, policy_files, _POLICY_CACHE, loads, db>>

\* DELETE /conversations/{id} (api.py 339-354).
delete_conversation(id) ==
    /\ IF id \in DOMAIN db.conversations
       THEN /\ db' = delete_cascade(db, id)
            /\ response' = Response("delete_conversation", id, 200, FALSE, <<>>)
       ELSE /\ db' = db
            /\ response' = Response("delete_conversation", id, 404, FALSE, <<>>)
    /\ UNCHANGED <<engine, requests, now, turns, policy_files, _POLICY_CACHE, loads>>

\* POST /chat (api.py 385-468); ok: the model call returns.  The response
\* holds the reply and the conversation's messages as the select ordered
\* by created_at returns them (api.py 449-467).
chat(id, said, ok) ==
    /\ ok => db.message_id_seq < 2 * MaxChats
    /\ Len(loads) < MaxLoads
    /\ IF id \notin DOMAIN db.conversations
       THEN /\ response' = Response("chat", id, 404, FALSE, <<>>)
            /\ UNCHANGED <<_POLICY_CACHE, loads, db>>
       ELSE LET conversation == db.conversations[id]
                g == get_policy(_POLICY_CACHE,
                                load_policy_data(policy_files, DefaultPath))
            IN  /\ use_policy(g)
                /\ IF g.raised
                   THEN /\ response' = Response("chat", id, 500, FALSE, <<>>)
                        /\ db' = db
                   ELSE LET found == lookup(g.cache[1], conversation.insurer,
                                            conversation.plan)
                        IN  IF found.status # 200
                            THEN /\ response' = Response("chat", id, found.status,
                                                         FALSE, <<>>)
                                 /\ db' = db
                            ELSE \E h \in history_dicts(messages_of(db, id)) :
                                   LET r == chat_with_history(h, found.policy,
                                               conversation.bill_text, said, now)
                                       rows == new_messages(db, id, said, r.reply,
                                                            ok, now)
                                   IN  /\ db' = insert_messages(db, id, rows, now)
                                       /\ IF ok
                                          THEN \E all_messages \in
                                                   sorted_by_created_at(
                                                       messages_of(db', id)) :
                                                 response' =
                                                   Response("chat", id, 200, TRUE,
                                                     <<[reply |-> r.reply,
                                                        messages |-> all_messages]>>)
                                          ELSE response' =
                                                 Response("chat", id, 500, TRUE, <<>>)
    /\ now' = IF db'.message_id_seq # db.message_id_seq THEN now + 1 ELSE now
    /\ UNCHANGED <<engine, requests, turns, policy_files>>

NextServer ==
    \/ edit_policy_file
    \/ \E path \in {DefaultPath, OtherPath} : call_get_policy(path)
    \/ policy_route
    \/ insurers
    \/ \E insurer \in PlansRequests : plans(insurer)
    \/ \E c \in CreateRequests : create_conversation(c[1], c[2])
    \/ \E id \in ConversationIds : get_conversation(id)
    \/ \E id \in ConversationIds : delete_conversation(id)
    \/ \E id \in ConversationIds, said \in ChatTexts, ok \in BOOLEAN : chat(id, said, ok)

SpecServer == InitServer /\ [][NextServer]_vars

(***************************************************************************)
(* Claims about the policy cache, checked under SpecServer                 *)
(***************************************************************************)
PolicyRequests == {"get_policy", "policy", "insurers", "plans"}

\* C13: no request changes the policy mapping it works with: once the cache
\* is filled it holds the mapping that was first loaded from the policy
\* file, after any sequence of requests and whatever the file has become.
C13_PolicyUnchanged ==
    _POLICY_CACHE # <<>> => (loads # <<>> /\ _POLICY_CACHE[1] = loads[1])

\* A chat has been answered from the cache after the file was replaced.
C13_Witness ==
    /\ response.request = "chat"
    /\ response.status = 200
    /\ _POLICY_CACHE # <<>>
    /\ policy_files[DefaultPath] # <<>>
    /\ policy_files[DefaultPath] # _POLICY_CACHE

\* C18: the policy file is read successfully at most once; every call after
\* that load returns the cached mapping, whatever path it names; and a
\* failed load leaves the cache empty, so that the next call loads again.
C18_LoadedOnce ==
    /\ Len(loads) <= 1
    /\ (_POLICY_CACHE = <<>>) <=> (loads = <<>>)
    /\ (response.request \in {"get_policy", "policy"} /\ response.status = 200)
          => (loads # <<>> /\ response.body = <<loads[1]>>)
    /\ (response.request = "insurers" /\ response.status = 200)
          => (loads # <<>> /\ DOMAIN response.body[1] = DOMAIN loads[1])
    /\ (response.request \in PolicyRequests /\ response.status = 500)
          => _POLICY_CACHE = <<>>

\* A direct call has returned a cached mapping that neither file holds.
C18_Witness ==
    /\ response.request = "get_policy"
    /\ response.status = 200
    /\ Len(loads) = 1
    /\ response.body = <<loads[1]>>
    /\ policy_files[DefaultPath] # response.body
    /\ policy_files[OtherPath] # response.body

(***************************************************************************)
(* Claims about conversations and messages, checked under SpecServer       *)
(***************************************************************************)
Exists(id) == id \in DOMAIN db.conversations

UnknownIn(policy_data, conversation) ==
    \/ conversation.insurer \notin DOMAIN policy_data
    \/ conversation.plan \notin DOMAIN policy_data[conversation.insurer]

\* C15: a chat on a conversation whose insurer or plan is not an exact key
\* of the policy mapping is answered 400, without a model call and without
\* storing a message; /plans for an insurer that is not an exact key is
\* answered 404.
C15_UnknownPolicy ==
    [][/\ (/\ response'.request = "chat"
           /\ Exists(response'.id)
           /\ _POLICY_CACHE' # <<>>
           /\ UnknownIn(_POLICY_CACHE'[1], db.conversations[response'.id]))
              => (/\ response'.status = 400
                  /\ ~response'.invoked
                  /\ db' = db)
       /\ \A insurer \in PlansRequests :
            (/\ plans(insurer)
             /\ _POLICY_CACHE' # <<>>
             /\ insurer \notin DOMAIN _POLICY_CACHE'[1])
                => response'.status = 404]_vars

\* A chat on a conversation created for insurer "hdfc" has been refused.
C15_Witness ==
    /\ response.request = "chat"
    /\ response.status = 400
    /\ Exists(response.id)
    /\ db.conversations[response.id].insurer = "hdfc"
    /\ _POLICY_CACHE # <<>>
    /\ "HDFC" \in DOMAIN _POLICY_CACHE[1]

Deleted(id) == id <= db.conversation_id_seq /\ ~Exists(id)

OthersUnchanged(id) ==
    \A o \in DOMAIN db.conversations \ {id} :
        /\ o \in DOMAIN db'.conversations
        /\ db'.conversations[o] = db.conversations[o]
        /\ messages_of(db', o) = messages_of(db, o)

\* C17: a successful delete removes the conversation and all its messages
\* and leaves every other conversation and its messages as they were; from
\* then on get, chat and delete on that id are answered 404; a delete of an
\* id that does not exist is answered 404 and changes nothing.
C17_DeleteCascade ==
    [][LET id == response'.id
       IN  /\ (response'.request = "delete_conversation" /\ Exists(id))
                 => (/\ response'.status = 200
                     /\ id \notin DOMAIN db'.conversations
                     /\ messages_of(db', id) = {}
                     /\ OthersUnchanged(id)
                     /\ db'.conversations =
                           [o \in DOMAIN db.conversations \ {id} |-> db.conversations[o]])
           /\ (response'.request = "delete_conversation" /\ ~Exists(id))
                 => (response'.status = 404 /\ db' = db)
           /\ (/\ response'.request \in
                     {"get_conversation", "delete_conversation", "chat"}
               /\ Deleted(id))
                 => (response'.status = 404 /\ db' = db)
           /\ \A m \in db'.messages :
                 m.conversation_id \in DOMAIN db'.conversations]_vars

\* A conversation with messages has been deleted while another one with
\* messages stays.
C17_Witness ==
    /\ response.request = "delete_conversation"
    /\ response.status = 200
    /\ db.messages # {}
    /\ Cardinality(db.messages) < db.message_id_seq

Stored(id, role) == {m \in messages_of(db, id) : m.role = role}

\* C19: a chat either stores exactly two new messages for its conversation,
\* the user input with role user and the reply with role assistant, and
\* sets the conversation's updated_at to the reply's created_at, or (the
\* conversation is missing, its insurer or plan is unknown, or the model
\* call raises) stores nothing and leaves the conversation as it was; so
\* every stored message has role user or assistant and every conversation
\* holds as many of the one as of the other.
C19_ChatAtomic ==
    [][/\ response'.request = "chat" =>
            LET id == response'.id
            IN  /\ \/ /\ response'.status = 200
                      /\ Exists(id)
                      /\ \E u, a \in db'.messages :
                            /\ db'.messages = db.messages \cup {u, a}
                            /\ {u, a} \cap db.messages = {}
                            /\ u.conversation_id = id /\ a.conversation_id = id
                            /\ u.role = "user" /\ u.content.said \in ChatTexts
                            /\ a.role = "assistant"
                            /\ a.content = response'.body[1].reply
                            /\ a.content.said = u.content.said
                            /\ db'.conversations =
                                  [db.conversations EXCEPT
                                      ![id].updated_at = a.created_at]
                   \/ /\ response'.status # 200
                      /\ db' = db
                /\ ~Exists(id) => response'.status = 404
                /\ (/\ Exists(id)
                    /\ _POLICY_CACHE' # <<>>
                    /\ UnknownIn(_POLICY_CACHE'[1], db.conversations[id]))
                       => response'.status = 400
                /\ response'.status = 200 => response'.invoked
       /\ \A m \in db'.messages : m.role \in {"user", "assistant"}
       /\ \A id \in DOMAIN db'.conversations :
            Cardinality({m \in messages_of(db', id) : m.role = "user"})
              = Cardinality({m \in messages_of(db', id) : m.role = "assistant"})]_vars

\* The model call of a chat has raised on a conversation that holds an
\* earlier turn.
C19_Witness ==
    /\ response.request = "chat"
    /\ response.status = 500
    /\ response.invoked
    /\ Cardinality(Stored(response.id, "user")) = 1
    /\ Cardinality(Stored(response.id, "assistant")) = 1

(***************************************************************************)
(* Requests that run at the same time.  Two POST /chat requests on the     *)
(* same conversation run on the event loop: one of them runs until its     *)
(* next await (api.py 392, 441, 442, 443, 449, database.py 35), then       *)
(* either may go on.  A GET /policy request runs in a worker thread (its   *)
(* handler is a plain def, api.py 78-80) and may be switched with the      *)
(* others between any two steps of get_policy (main.py 57-59).  The rows a *)
(* session has flushed are seen by other sessions once it has committed.   *)
(***************************************************************************)
ChatRequests == {1, 2}

PolicyThread == 3

TheConversation == 1

Arrived(kind, at) ==
    [kind |-> kind, pc |-> at, rows |-> {}, found |-> <<>>, policy_data |-> <<>>,
     given |-> <<>>, reply |-> <<>>, pending |-> {}, status |-> 0]

\* The positions between which a chat handler does not await (api.py 397-441).
Running == {"load", "assign", "return", "ask"}

InitConcurrent ==
    /\ pc = "serving"
    /\ text = <<>>
    /\ keywords = <<>>
    /\ total = None
    /\ nonpay = NoResult
    /\ NoClaim
    /\ user_input = <<>>
    /\ intent = "none"
    /\ history = <<>>
    /\ calls = {}
    /\ \E m \in PolicyMappings :
          policy_files = (DefaultPath :> <<m>> @@ OtherPath :> <<TwoPlans>>)
    /\ _POLICY_CACHE = <<>>
    /\ loads = <<>>
    /\ db = insert_conversation(EmptyDb,
                Conversation("HDFC", "SILVER", TotalLinePool[5], 0))
    /\ response = NoResponse
    /\ requests = [r \in ChatRequests \cup {PolicyThread} |->
                      IF r = PolicyThread THEN Arrived("policy", "get_policy")
                      ELSE Arrived("chat", "arrived")]

At(r, at) == requests[r].pc = at

\* api.py 392-397: the conversation and its committed messages are read.
chat_select(r) ==
    /\ requests[r].kind = "chat"
    /\ At(r, "arrived")
    /\ requests' = [requests EXCEPT
                       ![r].rows = messages_of(db, TheConversation),
                       ![r].pc = "get_policy"]
    /\ UNCHANGED <<engine, now, turns, policy_files, _POLICY_CACHE, loads, db,
                   response>>

\* main.py 57: if _POLICY_CACHE is None.  A chat handler goes on from its
\* await only while no other chat handler is running.
check_cache(r) ==
    /\ At(r, "get_policy")
    /\ requests[r].kind = "chat" =>
          \A q \in ChatRequests \ {r} : requests[q].pc \notin Running
    /\ requests' = [requests EXCEPT
                       ![r].pc = IF _POLICY_CACHE = <<>> THEN "load" ELSE "return"]
    /\ UNCHANGED <<engine, now, turns, policy_files, _POLICY_CACHE, loads, db,
                   response>>

\* main.py 58, right-hand side: load_policy_data(path).
load_file(r) ==
    /\ At(r, "load")
    /\ LET found == load_policy_data(policy_files, DefaultPath)
       IN  /\ requests' = [requests EXCEPT
                              ![r].found = found,
                              ![r].pc = IF found = <<>> THEN "done" ELSE "assign",
                              ![r].status = IF found = <<>> THEN 500 ELSE 0]
           /\ loads' = loads \o found
    /\ UNCHANGED <<engine, now, turns, policy_files, _POLICY_CACHE, db, response>>

\* main.py 58, the assignment to _POLICY_CACHE.
assign_cache(r) ==
    /\ At(r, "assign")
    /\ _POLICY_CACHE' = requests[r].found
    /\ requests' = [requests EXCEPT ![r].pc = "return"]
    /\ UNCHANGED <<engine, now, turns, policy_files, loads, db, response>>

\* main.py 59: return _POLICY_CACHE; GET /policy answers with it.
return_cache(r) ==
    /\ At(r, "return")
    /\ requests' = [requests EXCEPT
                       ![r].policy_data = _POLICY_CACHE,
                       ![r].pc = IF requests[r].kind = "chat" THEN "ask" ELSE "done",
                       ![r].status = IF requests[r].kind = "chat" THEN 0 ELSE 200]
    /\ UNCHANGED <<engine, now, turns, policy_files, _POLICY_CACHE, loads, db,
                   response>>

\* api.py 404-441: the lookup, the history built from the rows read at the
\* start, the model call, and the flush of the two new rows, which takes
\* their ids from the sequence.
chat_ask(r) ==
    /\ At(r, "ask")
    /\ LET conversation == db.conversations[TheConversation]
           found == lookup(requests[r].policy_data[1], conversation.insurer,
                           conversation.plan)
       IN  IF found.status # 200
           THEN /\ requests' = [requests EXCEPT ![r].pc = "done",
                                                ![r].status = found.status]
                /\ db' = db
           ELSE \E said \in ChatTexts, h \in history_dicts(requests[r].rows) :
                  LET c == chat_with_history(h, found.policy, conversation.bill_text,
                                             said, now)
                  IN  /\ requests' =
                             [requests EXCEPT
                                 ![r].given = asked(h, found.policy,
                                                    conversation.bill_text, said, now),
                                 ![r].reply = <<c.reply>>,
                                 ![r].pending = new_messages(db, TheConversation,
                                                    said, c.reply, TRUE, now),
                                 ![r].pc = "flushed"]
                      /\ db' = [db EXCEPT !.message_id_seq = @ + 2]
    /\ UNCHANGED <<engine, now, turns, policy_files, _POLICY_CACHE, loads, response>>

\* api.py 442-468 and database.py 35: the response is built and the session
\* is committed.
chat_commit(r) ==
    /\ At(r, "flushed")
    /\ db' = [db EXCEPT !.messages = @ \cup requests[r].pending,
                        !.conversations[TheConversation].updated_at = now]
    /\ requests' = [requests EXCEPT ![r].pc = "done", ![r].status = 200]
    /\ UNCHANGED <<engine, now, turns, policy_files, _POLICY_CACHE, loads, response>>

NextConcurrent ==
    \/ \E r \in ChatRequests : chat_select(r)
    \/ \E r \in DOMAIN requests : check_cache(r)
    \/ \E r \in DOMAIN requests : load_file(r)
    \/ \E r \in DOMAIN requests : assign_cache(r)
    \/ \E r \in DOMAIN requests : return_cache(r)
    \/ \E r \in ChatRequests : chat_ask(r)
    \/ \E r \in ChatRequests : chat_commit(r)
    \/ edit_policy_file

SpecConcurrent == InitConcurrent /\ [][NextConcurrent]_vars

(***************************************************************************)
(* Claim about concurrent requests, checked under SpecConcurrent           *)
(***************************************************************************)
AllDone == \A r \in DOMAIN requests : At(r, "done")

Answered == {r \in DOMAIN requests : At(r, "done") /\ requests[r].status = 200}

\* Request b was handled as if after request a: the model was given a's turn.
SawTurnOf(b, a) ==
    \E i \in DOMAIN requests[b].given :
        requests[b].given[i] = message("assistant", requests[a].reply[1])

\* C14: when requests run at the same time, their results and stored effects
\* are those of the requests run one after another in some order: of two
\* answered chats on one conversation the later one was given the earlier
\* one's turn, and all answered requests worked with one policy mapping,
\* the one that was loaded first.
C14_AsStated ==
    AllDone =>
        /\ \A a, b \in ChatRequests \cap Answered :
              a # b => (SawTurnOf(a, b) \/ SawTurnOf(b, a))
        /\ \A a, b \in Answered : requests[a].policy_data = requests[b].policy_data

(***************************************************************************)
(* PDF text extraction: POST /ocr/pdf (api.py 137-146) and                 *)
(* ocr_pdf_from_base64 (main.py 137-164).  A text is a tuple of            *)
(* characters.  A local that may not have been assigned is <<>> when it    *)
(* is unbound and <<v>> when it holds v; the extractor's value is          *)
(* [kind |-> "None"], [kind |-> "str", value |-> text] or                  *)
(* [kind |-> "list", value |-> texts].                                     *)
(***************************************************************************)
\* str.strip(): leading and trailing whitespace is removed.
whitespace == {" ", "\t", "\n"}

RECURSIVE lstrip(_)
lstrip(t) == IF t # <<>> /\ Head(t) \in whitespace THEN lstrip(Tail(t)) ELSE t

RECURSIVE rstrip(_)
rstrip(t) ==
    IF t # <<>> /\ t[Len(t)] \in whitespace THEN rstrip(SubSeq(t, 1, Len(t) - 1))
    ELSE t

strip(t) == rstrip(lstrip(t))

\* "\n\n".join(texts)
RECURSIVE join_pages(_)
join_pages(texts) ==
    IF texts = <<>> THEN <<>>
    ELSE IF Len(texts) = 1 THEN texts[1]
    ELSE texts[1] \o <<NL, NL>> \o join_pages(Tail(texts))

\* main.py 153-156: the extractor's value made a stripped string;
\* str(text or "") of None and of an empty list is "".
native_text(value) ==
    IF value.kind = "None" THEN <<>>
    ELSE IF value.kind = "list" THEN strip(join_pages(value.value))
    ELSE strip(value.value)

\* main.py 200-224: the text of each page, or what the vision model reads
\* from its picture ("" when that raises), joined with a blank line.
page_text(page) ==
    IF strip(page.native) # <<>> THEN page.native
    ELSE IF page.vision = <<>> THEN <<>>
    ELSE page.vision[1]

\* main.py 202: the message returned when PyMuPDF is not installed.  Its
\* two backquotes, which a TLA+ string cannot hold, are written as quotes.
RequiresPyMuPDF ==
    <<"P", "D", "F", " ", "O", "C", "R", " ", "r", "e", "q", "u", "i", "r",
      "e", "s", " ", "'", "p", "i", "p", " ", "i", "n", "s", "t", "a", "l",
      "l", " ", "p", "y", "m", "u", "p", "d", "f", "'">>

extract_text_from_pdf(req) ==
    IF ~req.PYMUPDF_OK THEN RequiresPyMuPDF
    ELSE join_pages([i \in DOMAIN req.pages |-> page_text(req.pages[i])])

\* main.py 163: the call of the fallback is commented out, the local
\* `text` stays as the first part left it.
fallback(req, local) == local

\* main.py 146-161: the local `text` after the first part, and whether the
\* function has returned from inside it.
native_part(req) ==
    IF ~req.ELSAI_PDF_OK THEN [returned |-> FALSE, local |-> <<>>]
    ELSE IF req.extractor.raises THEN [returned |-> FALSE, local |-> <<>>]
    ELSE LET t == native_text(req.extractor.value)
         IN  [returned |-> t # <<>>, local |-> <<t>>]

\* main.py 137-164.  The result names the exception that leaves the
\* function, "none" when it returns.
ocr_pdf_from_base64(req) ==
    IF ~req.valid_base64 THEN [raised |-> "ValueError", text |-> <<>>]
    ELSE LET first == native_part(req)
             local == IF first.returned THEN first.local
                      ELSE fallback(req, first.local)
         IN  IF local = <<>> THEN [raised |-> "UnboundLocalError", text |-> <<>>]
             ELSE [raised |-> "none", text |-> local[1]]

MaxPages == 2

PageTexts == {<<>>, <<" ">>, <<"A">>}

ExtractorValues ==
    {[kind |-> "None", value |-> <<>>]}
    \cup {[kind |-> "str", value |-> t] : t \in {<<>>, <<" ", "A", "\n">>}}
    \cup {[kind |-> "list", value |-> ts] : ts \in {<<>>, << <<"A">>, <<"B">> >>}}

Pages ==
    [native : PageTexts, vision : {<<>>, << <<"B">> >>}]

PdfRequests ==
    [valid_base64 : BOOLEAN, ELSAI_PDF_OK : BOOLEAN, PYMUPDF_OK : BOOLEAN,
     extractor : [raises : BOOLEAN, value : ExtractorValues],
     pages : UNION {[1..n -> Pages] : n \in 1..MaxPages}]

InitPdf ==
    /\ pc = "serving"
    /\ text = <<>>
    /\ keywords = <<>>
    /\ total = None
    /\ nonpay = NoResult
    /\ NoClaim
    /\ user_input = <<>>
    /\ intent = "none"
    /\ history = <<>>
    /\ calls = {}
    /\ policy_files = <<>>
    /\ _POLICY_CACHE = <<>>
    /\ loads = <<>>
    /\ db = <<>>
    /\ response = NoResponse
    /\ \E req \in PdfRequests : requests = <<req>>

\* api.py 137-146: ValueError is answered with 400, any other exception
\* with 500.
ocr_pdf ==
    /\ response = NoResponse
    /\ LET r == ocr_pdf_from_base64(requests[1])
       IN  response' = Response("ocr_pdf", 0,
                           IF r.raised = "none" THEN 200
                           ELSE IF r.raised = "ValueError" THEN 400 ELSE 500,
                           FALSE,
                           IF r.raised = "none" THEN <<r.text>> ELSE <<>>)
    /\ UNCHANGED <<engine, requests, now, turns, policy_files, _POLICY_CACHE,
                   loads, db>>

NextPdf == ocr_pdf

SpecPdf == InitPdf /\ [][NextPdf]_vars

(***************************************************************************)
(* Claim about PDF extraction, checked under SpecPdf                       *)
(***************************************************************************)
\* The first extractor is not installed, raises, or yields no text.
NativeFails(req) ==
    \/ ~req.ELSAI_PDF_OK
    \/ req.extractor.raises
    \/ native_text(req.extractor.value) = <<>>

\* C16: for a validly encoded PDF whose native extractor is unavailable,
\* raises or yields empty text, ocr_pdf_from_base64 does not fail and
\* returns the fallback's page texts joined with a blank line.
C16_AsStated ==
    (/\ response.request = "ocr_pdf"
     /\ requests[1].valid_base64
     /\ NativeFails(requests[1]))
    => /\ response.status = 200
       /\ response.body = <<extract_text_from_pdf(requests[1])>>

(***************************************************************************)
(* Claim about the order of messages, checked under SpecServer             *)
(***************************************************************************)
\* A chat stores its user message and then its reply in one flush
\* (api.py 439-441), so the reply's id follows the user message's id, and a
\* chat committed later has greater ids.
Conversational(ms) ==
    /\ Len(ms) % 2 = 0
    /\ \A i \in DOMAIN ms :
          i % 2 = 1 => /\ ms[i].role = "user"
                       /\ ms[i + 1].role = "assistant"
                       /\ ms[i + 1].id = ms[i].id + 1
    /\ \A i, j \in DOMAIN ms : i < j => ms[i].id < ms[j].id

\* C21: the messages returned by POST /chat and by GET /conversations/{id}
\* are in conversational order: each user message stands immediately
\* before the reply produced for it, and the turns stand in the order in
\* which their chats were committed.
C21_AsStated ==
    (/\ response.request \in {"chat", "get_conversation"}
     /\ response.status = 200)
    => Conversational(response.body[1].messages)

(***************************************************************************)
(* Adjudication of bills that state a total (step 6 and 7 of the order of  *)
(* calculation, main.py 299-300), under policies whose co_pay_pct is any   *)
(* number of the policy file                                               *)
(***************************************************************************)
MaxTotalBill == 3

\* load_policy_data (main.py 64-68) checks no value of the file.
AnyCoPayPcts == CoPayPcts \cup {150}

NonPayableTotals == {0, 1}

TotalledPolicies ==
    {[room_type |-> "shared", cap_per_day |-> c, proportionate_deduction |-> d,
      co_pay_pct |-> q, sum_insured |-> s, approval_time |-> <<>>] :
        c \in {None, 1}, d \in BOOLEAN, q \in AnyCoPayPcts,
        s \in {None} \cup 0..MaxSumInsured}

TotalledFacts ==
    {[billed_type |-> b, rate_per_day |-> r, days |-> n,
      fixed_items |-> x, other_charges |-> o,
      total_bill |-> t, non_payables |-> np,
      discharge_date |-> None, discharge_time |-> None] :
        b \in {"shared", "single_private"}, r \in {None} \cup 0..MaxRate,
        n \in {None, 1}, x \in FixedItemTotals, o \in OtherChargeTotals,
        t \in {None} \cup 0..MaxTotalBill, np \in NonPayableTotals}

InitTotalled ==
    /\ pc = "start"
    /\ text = <<>>
    /\ keywords = <<>>
    /\ total = None
    /\ nonpay = NoResult
    /\ policy \in TotalledPolicies
    /\ facts \in TotalledFacts
    /\ now = 0
    /\ adj = NoAdjudication
    /\ timeline = NoTimeline
    /\ NoService

SpecTotalled == InitTotalled /\ [][NextAdjudication]_vars

(***************************************************************************)
(* Claim about the order and sign of the estimates, checked under          *)
(* SpecTotalled                                                            *)
(***************************************************************************)
\* C22: the estimates are ordered and not negative: for every policy and
\* every bill facts whose adjudication has a result,
\* 0 <= insurer_pays_low <= insurer_pays_best <= insurer_pays_high, and
\* patient_pays >= 0 when the total bill is resolved.
C22_AsStated ==
    (pc = "adjudicated" /\ ~adj.error) =>
        /\ RLeq(RInt(0), adj.insurer_pays_low)
        /\ RLeq(adj.insurer_pays_low, adj.insurer_pays_best)
        /\ RLeq(adj.insurer_pays_best, adj.insurer_pays_high)
        /\ facts.total_bill # None =>
              (adj.patient_pays # <<>> /\ RLeq(RInt(0), adj.patient_pays[1]))

====
